---- MODULE Spec2Model ----
(***************************************************************************)
(* Model of src/model/entities.py: the Blue Prince tile-placement game.    *)
(* The state is the Game object (grid, deck, player, inventory, selection  *)
(* state, running flag); the actions are the key handlers of game_loop.    *)
(* Every random call of the code is a nondeterministic choice over the     *)
(* outcomes it can produce.                                                *)
(*                                                                         *)
(* The board is checked on a scaled-down grid (ROWS rows instead of 9) and *)
(* on a sub-catalog of ROOM_CATALOG whose entries are copied from the      *)
(* source with their ports, cost, rarity, zone, colour and effects; each   *)
(* specification plays on the copies of some of these tiles (DeckOf).      *)
(***************************************************************************)
EXTENDS Integers, Sequences, FiniteSets, TLC

\* ------------------------------------------------------------------ bounds
\* Rows of the board explored (the shipped board has 9).
ROWS == 3
\* entities.py:296
COLS == 5
\* Tiles committed to the board in one explored game (Spec).
MaxPlaced == 2
\* Steps walked in one explored game (Spec).
MaxWalk == 4
\* Tiles committed in the long walk (SpecWalk).
MaxPlacedWalk == 1
\* Caps of the counters the incidental find and the loot can raise for ever.
MaxGemmes == 2
MaxCles == 1
MaxDes == 0
MaxPieces == 0
\* Tiles, steps and dice of the games with dice (SpecDice).
MaxPlacedDice == 1
MaxWalkDice == 2
MaxDice == 1
\* Steps walked in one explored game on the deck of the tools (SpecTools).
MaxWalkTools == 3

\* ------------------------------------------------------------- directions
Dir == {"up", "down", "left", "right"}
DIRS == [up |-> <<-1, 0>>, down |-> <<1, 0>>, left |-> <<0, -1>>, right |-> <<0, 1>>]
OPP == [up |-> "down", down |-> "up", left |-> "right", right |-> "left"]
DIR_ORDER == <<"up", "right", "down", "left">>

\* Position (0-based, as enumerate gives it) of direction d in DIR_ORDER.
DirIndex(d) == (CHOOSE i \in 1..4 : DIR_ORDER[i] = d) - 1

\* new_ports[DIR_ORDER[(i + q) % 4]] = ports_dict[DIR_ORDER[i]]
rotated_ports(ports_dict, quarter_turns) ==
    LET q == quarter_turns % 4
    IN  [nd \in Dir |-> ports_dict[DIR_ORDER[((DirIndex(nd) - q + 4) % 4) + 1]]]

\* ---------------------------------------------------------------- catalog
None == "None"
NoEffect == [type |-> None, amount |-> 0, spawn |-> None]
Effect(t, amt) == [type |-> t, amount |-> amt, spawn |-> None]
Ports(u, d, l, r) == [up |-> u, down |-> d, left |-> l, right |-> r]

\* Piece.__init__: a string zones_autorisees becomes cond_deplac.
Piece(ports, cout, degre_rarete, cond_deplac, couleur, on_enter, on_draw) ==
    [ports |-> ports, cout |-> cout, degre_rarete |-> degre_rarete,
     cond_deplac |-> cond_deplac, couleur |-> couleur,
     on_enter |-> on_enter, on_draw |-> on_draw]

ROOM_CATALOG ==
    ("Entrance Hall" :> Piece(Ports(TRUE, FALSE, TRUE, TRUE), 0, 0, None, "blue",
                              Effect("start", 0), NoEffect)) @@
    ("Attic" :> Piece(Ports(FALSE, TRUE, FALSE, FALSE), 3, 3, None, "blue",
                      Effect("attic_loot", 0), NoEffect)) @@
    ("Ballroom" :> Piece(Ports(TRUE, TRUE, FALSE, FALSE), 2, 2, None, "blue",
                         Effect("set_gems", 2), NoEffect)) @@
    ("Chamber of Mirrors" :> Piece(Ports(FALSE, TRUE, FALSE, FALSE), 0, 3, "center",
                                   "blue", NoEffect, NoEffect)) @@
    ("Greenhouse" :> Piece(Ports(FALSE, TRUE, FALSE, FALSE), 1, 2, "edge", "green",
                           NoEffect, Effect("inc_green_weight", 0))) @@
    ("Guest Bedroom" :> Piece(Ports(FALSE, TRUE, FALSE, FALSE), 0, 2, None, "purple",
                              Effect("food", 10), NoEffect)) @@
    ("Gymnasium" :> Piece(Ports(FALSE, TRUE, TRUE, TRUE), 0, 1, None, "red",
                          Effect("food", -2), NoEffect)) @@
    ("Bookshop" :> Piece(Ports(FALSE, TRUE, TRUE, FALSE), 1, 3, "corner", "yellow",
                         Effect("shop", 0), NoEffect)) @@
    ("Garage" :> Piece(Ports(FALSE, TRUE, FALSE, FALSE), 0, 1, "edge", "blue",
                       Effect("detecteur_de_metaux", 3), NoEffect)) @@
    ("Locker Room" :> Piece(Ports(TRUE, TRUE, FALSE, FALSE), 0, 1, None, "blue",
                            Effect("kit_de_crochetage", 0), NoEffect)) @@
    ("Storeroom" :> Piece(Ports(FALSE, TRUE, FALSE, FALSE), 0, 1, None, "blue",
                          Effect("pelle", 0), NoEffect))

Names == DOMAIN ROOM_CATALOG

\* Pieces that stand on the boards of SpecCalls and SpecShop and are in no
\* deck of the model: the Courtyard of the catalog (its on_enter spawns a dig
\* site), the Commissary of the catalog (a shop any cell admits), and
\* a piece built by make_piece with obj {'on_enter': {'type': 'goal'}}, the
\* effect on_enter answers with "You reached the Antechamber"; no entry of the
\* catalog carries that effect.
OTHER_PIECES ==
    ("Courtyard" :> Piece(Ports(FALSE, TRUE, TRUE, TRUE), 0, 1, "edge", "green",
                          [Effect("spawn", 0) EXCEPT !.spawn = "dig_site"], NoEffect)) @@
    ("Antechamber" :> Piece(Ports(FALSE, TRUE, FALSE, FALSE), 0, 0, None, "blue",
                            Effect("goal", 0), NoEffect)) @@
    ("Commissary" :> Piece(Ports(FALSE, TRUE, TRUE, FALSE), 1, 2, None, "yellow",
                           Effect("shop", 0), NoEffect))

\* cell.piece for a catalog whose Ballroom carries the effect 'goal' (the
\* variant C40 is checked against).
PieceOf_with_goal(nom) ==
    IF nom = "Ballroom" THEN [ROOM_CATALOG[nom] EXCEPT !.on_enter = Effect("goal", 0)]
    ELSE IF nom \in Names THEN ROOM_CATALOG[nom] ELSE OTHER_PIECES[nom]

\* cell.piece: the Piece object a cell refers to by its name.
PieceOf(nom) == IF nom \in Names THEN ROOM_CATALOG[nom] ELSE OTHER_PIECES[nom]

\* Piece.proba_tirage is 1 / 3^rarity; scaled by 27 to stay in the integers
\* (every catalog rarity is in 0..3).
proba_tirage(nom) == 27 \div (3 ^ ROOM_CATALOG[nom].degre_rarete)

\* The deck is a multiset of references to catalog pieces: name -> copies.
EmptyBag == [n \in Names |-> 0]
BagSize(b) ==
    LET RECURSIVE Sum(_)
        Sum(S) == IF S = {} THEN 0
                  ELSE LET n == CHOOSE x \in S : TRUE IN b[n] + Sum(S \ {n})
    IN  Sum(Names)
BagAdd(b, n) == [b EXCEPT ![n] = @ + 1]
\* A removal of every occurrence (the variant C6 is checked against).
BagRemoveAll(b, n) == [b EXCEPT ![n] = 0]
\* list.remove: one occurrence; ValueError (caught by the caller) when absent.
BagRemove(b, n) == IF b[n] > 0 THEN [b EXCEPT ![n] = @ - 1] ELSE b

INITIAL_DECK ==
    [n \in Names |->
        IF n = "Entrance Hall" THEN 0
        ELSE LET r == ROOM_CATALOG[n].degre_rarete
             IN  IF r >= 3 THEN 1 ELSE IF r = 2 THEN 3 ELSE IF r = 1 THEN 5 ELSE 7]

\* The part of INITIAL_DECK made of the copies of the tiles of S: one
\* specification plays the game on one such part of the deck.
DeckOf(S) == [n \in Names |-> IF n \in S THEN INITIAL_DECK[n] ELSE 0]
HouseDeck == {"Attic", "Ballroom", "Chamber of Mirrors", "Greenhouse", "Gymnasium"}
ToolDeck == {"Bookshop", "Chamber of Mirrors", "Garage", "Locker Room", "Storeroom"}

\* The rounds of the sampler without "available.remove(choice)" (the variant
\* C16 is checked against).
RECURSIVE SampleRoundsKeep(_, _)
SampleRoundsKeep(available, rounds) ==
    IF rounds = 0 THEN {<<>>}
    ELSE LET avail == {n \in Names : available[n] > 0}
         IN  UNION {{<<x>> \o rest : rest \in SampleRoundsKeep(available, rounds - 1)} :
                    x \in avail}

\* weighted_sample_no_replacement: the lists it can return. Each round picks
\* any available element of positive weight (any element when the total
\* weight is 0) and removes one occurrence of it.
RECURSIVE SampleRounds(_, _)
SampleRounds(available, rounds) ==
    IF rounds = 0 THEN {<<>>}
    ELSE LET avail == {n \in Names : available[n] > 0}
             tot == BagSize([n \in Names |-> available[n] * proba_tirage(n)])
             pick == IF tot = 0 THEN avail
                     ELSE {n \in avail : proba_tirage(n) > 0}
         IN  UNION {{<<x>> \o rest :
                        rest \in SampleRounds(BagRemove(available, x), rounds - 1)} :
                    x \in pick}

weighted_sample_no_replacement(pool, k) ==
    LET len == BagSize(pool)
    IN  SampleRounds(pool, IF k < len THEN k ELSE len)

\* -------------------------------------------------------------- inventory
\* Inventory.__init__
Inventory ==
    [objets_consommables |->
        [pas |-> 70, pieces |-> 0, gemmes |-> 2, cles |-> 0, des |-> 0],
     objets_permanents |->
        [pelle |-> FALSE, marteau |-> FALSE, kit_de_crochetage |-> FALSE,
         detecteur_de_metaux |-> FALSE, patte_de_lapin |-> FALSE]]

Consommables == {"pas", "pieces", "gemmes", "cles", "des"}

ajouter_conso(inv, nom_objet, quantitee) ==
    [inv EXCEPT !.objets_consommables[nom_objet] = @ + quantitee]

\* retirer without its stock test (the variant C4 is checked against).
retirer_unchecked(inv, nom_objet, quantitee) ==
    [ok |-> TRUE, inv |-> [inv EXCEPT !.objets_consommables[nom_objet] = @ - quantitee]]

\* retirer returns a bool and mutates in place: [ok, inv] is the pair of both.
retirer(inv, nom_objet, quantitee) ==
    IF inv.objets_consommables[nom_objet] >= quantitee
    THEN [ok |-> TRUE,
          inv |-> [inv EXCEPT !.objets_consommables[nom_objet] = @ - quantitee]]
    ELSE [ok |-> FALSE, inv |-> inv]

ajouter_perm(inv, nom_objet) == [inv EXCEPT !.objets_permanents[nom_objet] = TRUE]

\* ---------------------------------------------------------- interactables
\* (resource, amount, probability in percent)
LOOT_TABLE_CHEST == <<<<"gemmes", 1, 35>>, <<"cles", 1, 40>>, <<"pieces", 15, 50>>>>
LOOT_TABLE_CASIER == <<<<"cles", 1, 60>>, <<"pieces", 10, 30>>>>
LOOT_TABLE_DIG == <<<<"pieces", 8, 50>>, <<"cles", 1, 20>>, <<"gemmes", 1, 20>>>>

\* _roll_loot: the loot lists it can return. Entry i falls when
\* random() < eff_p, which can happen iff eff_p > 0 and can fail iff eff_p < 1.
RECURSIVE RollFrom(_, _, _)
RollFrom(table, i, has_detector) ==
    IF i > Len(table) THEN {<<>>}
    ELSE LET name == table[i][1]
             amt == table[i][2]
             p == table[i][3]
             eff_p == IF has_detector /\ name \in {"cles", "pieces"}
                      THEN (IF p + 15 > 100 THEN 100 ELSE p + 15)
                      ELSE p
             rest == RollFrom(table, i + 1, has_detector)
         IN  (IF eff_p > 0 THEN {<<<<name, amt>>>> \o r : r \in rest} ELSE {}) \cup
             (IF eff_p < 100 THEN rest ELSE {})

roll_loot(table, has_detector) ==
    {IF out = <<>> THEN <<<<"pieces", 5>>>> ELSE out :
        out \in RollFrom(table, 1, has_detector)}

\* An Interactable object: its class, its flag, and which of the objects made
\* for its cell it is (the objects are told apart by identity).
NoInteractable == [kind |-> None, opened |-> FALSE, instance |-> 0]
Interactable(kind) == [kind |-> kind, opened |-> FALSE, instance |-> 1]
isInteractable(it) == it.kind \in {"chest", "casier", "dig_site"}

\* --------------------------------------------------------------- the game
NoDoor == -1
NoCell == <<>>
Cells == (0 .. ROWS - 1) \X (0 .. COLS - 1)

\* Cell.__init__
Cell ==
    [piece |-> None, rotation |-> 0, doors |-> [d \in Dir |-> NoDoor],
     interactable |-> NoInteractable]

start_r == ROWS - 1
start_c == COLS \div 2

\* Game.__init__ (the shuffle does not change the multiset)
Game ==
    [deck |-> INITIAL_DECK,
     grid |-> [rc \in Cells |->
                 IF rc = <<start_r, start_c>>
                 THEN [Cell EXCEPT !.piece = "Entrance Hall"] ELSE Cell],
     player_r |-> start_r,
     player_c |-> start_c,
     inventory |-> Inventory,
     turn_msg |-> "Welcome",
     selection_mode |-> FALSE,
     candidates |-> <<>>,
     selection_pos |-> 0,
     target_cell |-> NoCell,
     running |-> TRUE,
     in_shop |-> FALSE,
     shop_cycle |-> 0]

in_bounds(r, c) == 0 <= r /\ r < ROWS /\ 0 <= c /\ c < COLS

\* A call weighted_sample_no_replacement(pool, k) as its caller sees it: the
\* list returned, and the caller's pool after the call. The function works on
\* the copies pool = list(pool) and available = pool[:], so the caller's list
\* is the one passed.
weighted_sample_call(pool, k) ==
    {[selected |-> s, pool |-> pool] : s \in weighted_sample_no_replacement(pool, k)}

NoPorts == [d \in Dir |-> FALSE]

cell_ports(self, r, c) ==
    LET cell == self.grid[<<r, c>>]
    IN  IF cell.piece = None THEN NoPorts
        ELSE rotated_ports(PieceOf(cell.piece).ports, cell.rotation)

piece_ports_with_rotation(piece, rotation) ==
    rotated_ports(ROOM_CATALOG[piece].ports, rotation)

\* can_place_with_ports without the test "the piece has a port the neighbour
\* lacks" (the variant C1 is checked against).
can_place_one_sided(self, ports, tr, tc, from_dir) ==
    /\ ports[OPP[from_dir]]
    /\ \A d \in Dir : ports[d] => in_bounds(tr + DIRS[d][1], tc + DIRS[d][2])
    /\ \A d \in Dir :
          LET nr == tr + DIRS[d][1]
              nc == tc + DIRS[d][2]
          IN  (in_bounds(nr, nc) /\ self.grid[<<nr, nc>>].piece # None) =>
                 ~(cell_ports(self, nr, nc)[OPP[d]] /\ ~ports[d])

\* can_place_with_ports without the test "no port leaves the board" (the
\* variant C14 is checked against).
can_place_off_board(self, ports, tr, tc, from_dir) ==
    /\ ports[OPP[from_dir]]
    /\ \A d \in Dir :
          LET nr == tr + DIRS[d][1]
              nc == tc + DIRS[d][2]
          IN  (in_bounds(nr, nc) /\ self.grid[<<nr, nc>>].piece # None) =>
                 LET neigh_ports == cell_ports(self, nr, nc)
                 IN  /\ ~(ports[d] /\ ~neigh_ports[OPP[d]])
                     /\ ~(neigh_ports[OPP[d]] /\ ~ports[d])

can_place_with_ports(self, ports, tr, tc, from_dir) ==
    \* 1) a port toward the origin
    /\ ports[OPP[from_dir]]
    \* 2) no port leaves the board
    /\ \A d \in Dir : ports[d] => in_bounds(tr + DIRS[d][1], tc + DIRS[d][2])
    \* 3) agreement with the neighbours already placed
    /\ \A d \in Dir :
          LET nr == tr + DIRS[d][1]
              nc == tc + DIRS[d][2]
          IN  (in_bounds(nr, nc) /\ self.grid[<<nr, nc>>].piece # None) =>
                 LET neigh_ports == cell_ports(self, nr, nc)
                 IN  /\ ~(ports[d] /\ ~neigh_ports[OPP[d]])
                     /\ ~(neigh_ports[OPP[d]] /\ ~ports[d])

\* can_place_piece testing only that some rotation turns a port back to the
\* origin (the variant C27 is checked against).
can_place_piece_facing(self, piece, tr, tc, from_dir) ==
    \E rot \in 0..3 : piece_ports_with_rotation(piece, rot)[OPP[from_dir]]

can_place_piece(self, piece, tr, tc, from_dir) ==
    \E rot \in 0..3 :
        can_place_with_ports(self, piece_ports_with_rotation(piece, rot), tr, tc, from_dir)

\* fits_board_and_direction without the tests of cond_deplac (the variant C13
\* is checked against).
fits_any_zone(self, piece, tr, tc, direction) ==
    can_place_piece(self, piece, tr, tc, direction)

fits_board_and_direction(self, piece, tr, tc, direction) ==
    LET cond == ROOM_CATALOG[piece].cond_deplac
        on_edge == tr = 0 \/ tr = ROWS - 1 \/ tc = 0 \/ tc = COLS - 1
        in_corner == tr \in {0, ROWS - 1} /\ tc \in {0, COLS - 1}
        in_center == 0 < tr /\ tr < ROWS - 1 /\ 0 < tc /\ tc < COLS - 1
    IN  IF cond = "edge" /\ ~on_edge THEN FALSE
        ELSE IF cond = "corner" /\ ~in_corner THEN FALSE
        ELSE IF cond = "center" /\ ~in_center THEN FALSE
        ELSE can_place_piece(self, piece, tr, tc, direction)

\* generate_candidates without the filter by gems (the variant C25 is checked
\* against).
generate_candidates_unfiltered(self, tr, tc, direction) ==
    LET pool == [n \in Names |->
                    IF self.deck[n] > 0 /\
                       fits_board_and_direction(self, n, tr, tc, direction)
                    THEN self.deck[n] ELSE 0]
        zero_cost_rooms == {n \in Names : pool[n] > 0 /\ ROOM_CATALOG[n].cout = 0}
        trim(c) == SubSeq(c, 1, IF Len(c) < 3 THEN Len(c) ELSE 3)
    IN  IF BagSize(pool) = 0 THEN {<<>>}
        ELSE IF zero_cost_rooms # {}
        THEN UNION {
                 LET remaining_pool == [pool EXCEPT ![free_choice] = 0]
                 IN  {trim(<<free_choice>> \o others) :
                         others \in weighted_sample_no_replacement(remaining_pool, 2)} :
                 free_choice \in zero_cost_rooms}
        ELSE {trim(c) : c \in weighted_sample_no_replacement(pool, 3)}

\* generate_candidates without the forced free choice (the variant C9 is
\* checked against).
generate_candidates_unforced(self, tr, tc, direction) ==
    LET legal_pool == [n \in Names |->
                          IF self.deck[n] > 0 /\
                             fits_board_and_direction(self, n, tr, tc, direction)
                          THEN self.deck[n] ELSE 0]
        gems == self.inventory.objets_consommables.gemmes
        afford == [n \in Names |->
                      IF ROOM_CATALOG[n].cout = 0 \/ ROOM_CATALOG[n].cout <= gems
                      THEN legal_pool[n] ELSE 0]
        pool == IF BagSize(afford) = 0 THEN legal_pool ELSE afford
    IN  IF BagSize(legal_pool) = 0 THEN {<<>>}
        ELSE weighted_sample_no_replacement(pool, 3)

\* generate_candidates: the candidate lists it can return (<<>> when no piece
\* of the deck is legal).
generate_candidates(self, tr, tc, direction) ==
    LET legal_pool == [n \in Names |->
                          IF self.deck[n] > 0 /\
                             fits_board_and_direction(self, n, tr, tc, direction)
                          THEN self.deck[n] ELSE 0]
        gems == self.inventory.objets_consommables.gemmes
        afford == [n \in Names |->
                      IF ROOM_CATALOG[n].cout = 0 \/ ROOM_CATALOG[n].cout <= gems
                      THEN legal_pool[n] ELSE 0]
        pool == IF BagSize(afford) = 0 THEN legal_pool ELSE afford
        zero_cost_rooms == {n \in Names : pool[n] > 0 /\ ROOM_CATALOG[n].cout = 0}
        trim(c) == SubSeq(c, 1, IF Len(c) < 3 THEN Len(c) ELSE 3)
    IN  IF BagSize(legal_pool) = 0 THEN {<<>>}
        ELSE IF zero_cost_rooms # {}
        THEN UNION {
                 \* "p is not free_choice" drops every reference to that piece
                 LET remaining_pool == [pool EXCEPT ![free_choice] = 0]
                 IN  {trim(<<free_choice>> \o others) :
                         others \in weighted_sample_no_replacement(remaining_pool, 2)} :
                 free_choice \in zero_cost_rooms}
        ELSE {trim(c) : c \in weighted_sample_no_replacement(pool, 3)}

neighbor_target(self, direction) ==
    <<self.player_r + DIRS[direction][1], self.player_c + DIRS[direction][2]>>

\* door_lock_for_target_row without the two boundary rows (the variant C17 is
\* checked against).
door_lock_by_distance(target_row) ==
    IF ROWS <= 1 THEN {0}
    ELSE LET n == ROWS - 1
             k == ROWS - 1 - target_row
             p0 == 7 * n - 6 * k
             p2 == n + 7 * k
             p1 == IF 10 * n - p0 - p2 > 0 THEN 10 * n - p0 - p2 ELSE 0
         IN  (IF p0 > 0 THEN {0} ELSE {}) \cup
             (IF p1 > 0 /\ p0 < 10 * n THEN {1} ELSE {}) \cup
             (IF p0 + p1 < 10 * n THEN {2} ELSE {})

\* door_lock_for_target_row: the levels it can return. With n = ROWS-1 and
\* k = ROWS-1-target_row (t = k/n), in units of 1/(10n):
\* p0 = 7n-6k, p2 = n+7k, p1 = max(0, 10n-p0-p2); r is uniform in [0, 10n).
door_lock_for_target_row(target_row) ==
    IF ROWS <= 1 THEN {0}
    ELSE IF target_row = ROWS - 1 THEN {0}
    ELSE IF target_row = 0 THEN {2}
    ELSE LET n == ROWS - 1
             k == ROWS - 1 - target_row
             p0 == 7 * n - 6 * k
             p2 == n + 7 * k
             p1 == IF 10 * n - p0 - p2 > 0 THEN 10 * n - p0 - p2 ELSE 0
         IN  (IF p0 > 0 THEN {0} ELSE {}) \cup
             (IF p1 > 0 /\ p0 < 10 * n THEN {1} ELSE {}) \cup
             (IF p0 + p1 < 10 * n THEN {2} ELSE {})

opposite(direction) ==
    [up |-> "down", down |-> "up", left |-> "right", right |-> "left"][direction]

\* The incidental find of on_enter: nothing (None), or one resource of the pool.
\* The detector only repeats "cles" and "pieces" in the pool.
FindPool(has_detector) ==
    IF has_detector
    THEN {"gemmes", "cles", "cles", "pieces", "pieces", "des", "pas"}
    ELSE {"gemmes", "cles", "des", "pieces", "pas"}

incidental_find(self, found) ==
    IF found = None THEN self
    ELSE [self EXCEPT !.inventory =
            ajouter_conso(@, found,
                          IF found = "pieces" THEN 5 ELSE IF found = "pas" THEN 3 ELSE 1)]

\* The test of the 'spawn' branch never holding: every entry builds a new
\* interactable (the variant C32 is checked against).
keeps_unopened_never(cell) == FALSE

\* The test of the 'spawn' branch holding for any interactable, opened or not:
\* a cell never gets a second one (the variant C38 is checked against).
keeps_any(cell) == isInteractable(cell.interactable)

\* on_enter, the 'spawn' branch: the cell holds an interactable that is not
\* opened, and on_enter returns at once.
keeps_unopened(cell) == isInteractable(cell.interactable) /\ ~cell.interactable.opened

\* on_enter(cell) for the cell at (r, c): the states it can end in. turn_msg
\* keeps the message without its amounts and without the find's suffix.
on_enter(self, r, c) ==
    LET cell == self.grid[<<r, c>>]
        p == cell.piece
        s0 == [self EXCEPT !.in_shop = FALSE]
        effects == PieceOf(p).on_enter
        t == effects.type
        has(perm) == s0.inventory.objets_permanents[perm]
        grant(perm, first, again) ==
            IF ~has(perm)
            THEN [s0 EXCEPT !.inventory = ajouter_perm(@, perm), !.turn_msg = first]
            ELSE [s0 EXCEPT !.turn_msg = again]
        kept == keeps_unopened(cell)
        \* cell.interactable = Chest() / Casier() / DigSite(): a new object
        spawned == IF effects.spawn \in {"chest", "casier", "dig_site"}
                   THEN [Interactable(effects.spawn) EXCEPT
                            !.instance = cell.interactable.instance + 1]
                   ELSE cell.interactable
        s1 == IF t = None THEN [s0 EXCEPT !.turn_msg = "Entered"]
              ELSE IF t = "coins"
              THEN [s0 EXCEPT !.inventory = ajouter_conso(@, "pieces", effects.amount),
                              !.turn_msg = "Found coins"]
              ELSE IF t = "food"
              THEN [s0 EXCEPT !.inventory = ajouter_conso(@, "pas", effects.amount),
                              !.turn_msg = "Ate food"]
              ELSE IF t = "goal"
              THEN [s0 EXCEPT !.turn_msg = "You win", !.running = FALSE]
              ELSE IF t = "start" THEN [s0 EXCEPT !.turn_msg = "Back at the Entrance"]
              ELSE IF t = "spawn"
              THEN [s0 EXCEPT !.grid[<<r, c>>].interactable = spawned,
                              !.turn_msg = IF isInteractable(spawned)
                                           THEN "You found an interactable" ELSE @]
              ELSE IF t = "detecteur_de_metaux"
              THEN [s0 EXCEPT !.inventory = ajouter_perm(@, "detecteur_de_metaux"),
                              !.turn_msg = "You found a metal detector"]
              ELSE IF t = "kit_de_crochetage"
              THEN grant("kit_de_crochetage", "You found a kit", "You already have a kit")
              ELSE IF t = "pelle"
              THEN grant("pelle", "You found a shovel", "You already have a shovel")
              ELSE IF t = "marteau"
              THEN grant("marteau", "You found a hammer", "You already have a hammer")
              ELSE IF t = "shop"
              THEN [s0 EXCEPT !.turn_msg = "You entered the shop", !.in_shop = TRUE]
              ELSE [s0 EXCEPT !.turn_msg = "Entered"]
    IN  IF p = None THEN {self}
        ELSE IF t = "spawn" /\ kept THEN {s0}
        ELSE {incidental_find(s1, found) :
                 found \in {None} \cup
                           FindPool(s1.inventory.objets_permanents.detecteur_de_metaux)}

\* dir_map.get((dr, dc)): None when the target is not a neighbour.
dir_map(dr, dc) ==
    IF <<dr, dc>> = <<-1, 0>> THEN "up"
    ELSE IF <<dr, dc>> = <<1, 0>> THEN "down"
    ELSE IF <<dr, dc>> = <<0, -1>> THEN "left"
    ELSE IF <<dr, dc>> = <<0, 1>> THEN "right"
    ELSE None

\* unlock_door with a kit that opens every lock (the variant C11 is checked
\* against).
unlock_door_kit_any(self, direction, t) ==
    LET d0 == self.grid[t].doors[opposite(direction)]
        lock == IF d0 = NoDoor THEN 0 ELSE d0
        kit == self.inventory.objets_permanents.kit_de_crochetage
        key == ~kit /\ self.inventory.objets_consommables.cles > 0
        s1 == IF kit THEN [self EXCEPT !.turn_msg = "Used kit"]
              ELSE [self EXCEPT !.inventory = retirer(@, "cles", 1).inv,
                                !.turn_msg = "Used a key"]
    IN  IF lock > 0
        THEN IF ~kit /\ ~key
             THEN [blocked |-> TRUE, out |-> [self EXCEPT !.turn_msg = "Door is locked"]]
             ELSE [blocked |-> FALSE,
                   out |-> [s1 EXCEPT
                              !.grid[<<self.player_r, self.player_c>>].doors[direction] = 0,
                              !.grid[t].doors[opposite(direction)] = 0]]
        ELSE [blocked |-> FALSE, out |-> self]

\* unlock_door opening only the side of the target cell, the key kept (the
\* variant C8 is checked against).
unlock_door_one_side(self, direction, t) ==
    LET d0 == self.grid[t].doors[opposite(direction)]
        lock == IF d0 = NoDoor THEN 0 ELSE d0
        kit == self.inventory.objets_permanents.kit_de_crochetage /\ lock = 1
        key == ~kit /\ self.inventory.objets_consommables.cles > 0
    IN  IF lock > 0
        THEN IF ~kit /\ ~key
             THEN [blocked |-> TRUE, out |-> [self EXCEPT !.turn_msg = "Door is locked"]]
             ELSE [blocked |-> FALSE,
                   out |-> [self EXCEPT !.grid[t].doors[opposite(direction)] = 0,
                                        !.turn_msg = "Used a key"]]
        ELSE [blocked |-> FALSE, out |-> self]

\* unlock_door refusing a neighbour with no lock entry on the side of the
\* player: only a door made by a confirm lets through (the variant C34 is
\* checked against).
unlock_door_made_only(self, direction, t) ==
    LET d0 == self.grid[t].doors[opposite(direction)]
        kit == self.inventory.objets_permanents.kit_de_crochetage /\ d0 = 1
        key == ~kit /\ self.inventory.objets_consommables.cles > 0
        s1 == IF kit THEN [self EXCEPT !.turn_msg = "Used kit"]
              ELSE [self EXCEPT !.inventory = retirer(@, "cles", 1).inv,
                                !.turn_msg = "Used a key"]
    IN  IF d0 = NoDoor
        THEN [blocked |-> TRUE, out |-> [self EXCEPT !.turn_msg = "A wall"]]
        ELSE IF d0 > 0
        THEN IF ~kit /\ ~key
             THEN [blocked |-> TRUE, out |-> [self EXCEPT !.turn_msg = "Door is locked"]]
             ELSE [blocked |-> FALSE,
                   out |-> [s1 EXCEPT
                              !.grid[<<self.player_r, self.player_c>>].doors[direction] = 0,
                              !.grid[t].doors[opposite(direction)] = 0]]
        ELSE [blocked |-> FALSE, out |-> self]

\* unlock_door writing 0 on both sides also when there is no lock to open
\* (the variant C37 is checked against).
unlock_door_marks_open(self, direction, t) ==
    LET d0 == self.grid[t].doors[opposite(direction)]
        lock == IF d0 = NoDoor THEN 0 ELSE d0
        kit == self.inventory.objets_permanents.kit_de_crochetage /\ lock = 1
        key == ~kit /\ self.inventory.objets_consommables.cles > 0
        s1 == IF lock = 0 THEN self
              ELSE IF kit THEN [self EXCEPT !.turn_msg = "Used kit"]
              ELSE [self EXCEPT !.inventory = retirer(@, "cles", 1).inv,
                                !.turn_msg = "Used a key"]
    IN  IF lock > 0 /\ ~kit /\ ~key
        THEN [blocked |-> TRUE, out |-> [self EXCEPT !.turn_msg = "Door is locked"]]
        ELSE [blocked |-> FALSE,
              out |-> [s1 EXCEPT
                         !.grid[<<self.player_r, self.player_c>>].doors[direction] = 0,
                         !.grid[t].doors[opposite(direction)] = 0]]

\* open_door_or_move, the lock of CASE 1: [blocked, out]. blocked: the door is
\* locked and neither kit nor key opens it; else out is the game after the
\* unlocking (a key spent unless the kit opens a level-1 door, both sides 0).
unlock_door(self, direction, t) ==
    LET cell == self.grid[t]
        d0 == cell.doors[opposite(direction)]
        lock == IF d0 = NoDoor THEN 0 ELSE d0
        kit == self.inventory.objets_permanents.kit_de_crochetage /\ lock = 1
        key == ~kit /\ self.inventory.objets_consommables.cles > 0
        s1 == IF kit THEN [self EXCEPT !.turn_msg = "Used kit"]
              ELSE [self EXCEPT !.inventory = retirer(@, "cles", 1).inv,
                                !.turn_msg = "Used a key"]
    IN  IF lock > 0
        THEN IF ~kit /\ ~key
             THEN [blocked |-> TRUE, out |-> [self EXCEPT !.turn_msg = "Door is locked"]]
             ELSE [blocked |-> FALSE,
                   out |-> [s1 EXCEPT
                              !.grid[<<self.player_r, self.player_c>>].doors[direction] = 0,
                              !.grid[t].doors[opposite(direction)] = 0]]
        ELSE [blocked |-> FALSE, out |-> self]

\* step_into without the step it costs (the variant C2 is checked against).
step_into_free(self, tr, tc) ==
    IF self.inventory.objets_consommables.pas <= 0
    THEN {[self EXCEPT !.turn_msg = "No steps left"]}
    ELSE on_enter([self EXCEPT !.player_r = tr, !.player_c = tc, !.in_shop = FALSE],
                  tr, tc)

\* step_into without the call of on_enter (the variant C21 is checked
\* against).
step_into_unentered(self, tr, tc) ==
    IF self.inventory.objets_consommables.pas <= 0
    THEN {[self EXCEPT !.turn_msg = "No steps left"]}
    ELSE {[self EXCEPT !.inventory = retirer(@, "pas", 1).inv,
                       !.player_r = tr, !.player_c = tc,
                       !.in_shop = FALSE]}

\* open_door_or_move, the end of CASE 1: the move costs one step and enters.
step_into(self, tr, tc) ==
    IF self.inventory.objets_consommables.pas <= 0
    THEN {[self EXCEPT !.turn_msg = "No steps left"]}
    ELSE on_enter([self EXCEPT !.inventory = retirer(@, "pas", 1).inv,
                               !.player_r = tr, !.player_c = tc,
                               !.in_shop = FALSE],
                  tr, tc)

\* open_door_or_move(direction): the states it can end in.
open_door_or_move(self, direction) ==
    LET t == neighbor_target(self, direction)
        tr == t[1]
        tc == t[2]
    IN  IF ~in_bounds(tr, tc) THEN {[self EXCEPT !.turn_msg = "A wall"]}
        ELSE IF self.grid[t].piece # None
        THEN \* CASE 1: the cell holds a piece
            LET door == unlock_door(self, direction, t)
            IN  IF door.blocked THEN {door.out} ELSE step_into(door.out, tr, tc)
        ELSE \* CASE 2: the cell is empty
            LET real_dir == LET m == dir_map(tr - self.player_r, tc - self.player_c)
                            IN  IF m = None THEN direction ELSE m
            IN  {IF candidates = <<>>
                 THEN [self EXCEPT !.turn_msg = "No legal rooms"]
                 ELSE [self EXCEPT !.selection_mode = TRUE,
                                   !.candidates = candidates,
                                   !.selection_pos = 0,
                                   !.target_cell = t,
                                   !.turn_msg = "Choose a room"] :
                    candidates \in generate_candidates(self, tr, tc, real_dir)}

\* random.choices(population, k=2): two draws with replacement, appended.
extend_choices(deck, population) ==
    {BagAdd(BagAdd(deck, a), b) : a \in population, b \in population}

\* pay_cost without the test of the gems (the variant C7 is checked against).
pay_cost_unchecked(inv, choice) ==
    [ok |-> TRUE, inv |-> ajouter_conso(inv, "gemmes", 0 - ROOM_CATALOG[choice].cout)]

\* confirm_selection step 5: [ok, inv]. ok is FALSE when the gems do not cover
\* the cost; else inv is the inventory after the payment.
pay_cost(inv, choice) ==
    LET cout == ROOM_CATALOG[choice].cout
    IN  IF cout > 0
        THEN IF inv.objets_consommables.gemmes < cout
             THEN [ok |-> FALSE, inv |-> inv]
             ELSE [ok |-> TRUE, inv |-> retirer(inv, "gemmes", cout).inv]
        ELSE [ok |-> TRUE, inv |-> inv]

\* commit_piece writing the piece into the player's cell (the variant C5 is
\* checked against).
commit_piece_in_place(self, choice, chosen_rot, tr, tc, direction, lock_level) ==
    [self EXCEPT
        !.grid[<<self.player_r, self.player_c>>].piece = choice,
        !.grid[<<self.player_r, self.player_c>>].rotation = chosen_rot,
        !.grid[<<tr, tc>>].piece = choice,
        !.grid[<<tr, tc>>].rotation = chosen_rot,
        !.grid[<<self.player_r, self.player_c>>].doors[direction] = lock_level,
        !.grid[<<tr, tc>>].doors[opposite(direction)] = lock_level]

\* confirm_selection steps 6 and 7: the piece and its rotation go into the
\* target cell, the lock level on both sides of the new connection.
commit_piece(self, choice, chosen_rot, tr, tc, direction, lock_level) ==
    [self EXCEPT
        !.grid[<<tr, tc>>].piece = choice,
        !.grid[<<tr, tc>>].rotation = chosen_rot,
        !.grid[<<self.player_r, self.player_c>>].doors[direction] = lock_level,
        !.grid[<<tr, tc>>].doors[opposite(direction)] = lock_level]

\* confirm_selection step 9: the on_draw effect of the piece.
on_draw(self, choice) ==
    LET od == ROOM_CATALOG[choice].on_draw
        greens == {n \in Names : ROOM_CATALOG[n].couleur = "green"}
        fires == {n \in Names : n = "Furnace"}
    IN  IF od.type = None THEN {[self EXCEPT !.turn_msg = "Placed"]}
        ELSE IF od.type = "gem_always"
        THEN {[self EXCEPT !.inventory = ajouter_conso(@, "gemmes", 1),
                           !.turn_msg = "You drew a room and found a gem"]}
        ELSE IF od.type = "inc_green_weight"
        THEN IF greens = {} THEN {self}
             ELSE {[self EXCEPT !.deck = dk, !.turn_msg = "More green rooms"] :
                      dk \in extend_choices(self.deck, greens)}
        ELSE IF od.type = "inc_find_objects"
        THEN {[self EXCEPT !.inventory = ajouter_perm(@, "patte_de_lapin"),
                           !.turn_msg = "Found patte_de_lapin"]}
        ELSE IF od.type = "inc_fire_weight"
        THEN IF fires = {} THEN {self}
             ELSE {[self EXCEPT !.deck = dk, !.turn_msg = "More furnaces"] :
                      dk \in extend_choices(self.deck, fires)}
        ELSE {self}

\* confirm_selection: the states it can end in.
confirm_selection(self) ==
    IF ~self.selection_mode \/ self.target_cell = NoCell THEN {self}
    ELSE IF self.selection_pos < 0 \/ self.selection_pos >= Len(self.candidates)
    THEN {self}
    ELSE
    LET choice == self.candidates[self.selection_pos + 1]
        tr == self.target_cell[1]
        tc == self.target_cell[2]
        direction == dir_map(tr - self.player_r, tc - self.player_c)
        rots == IF direction = None THEN {}
                ELSE {rot \in 0..3 :
                         can_place_with_ports(self, piece_ports_with_rotation(choice, rot),
                                              tr, tc, direction)}
        paid == pay_cost(self.inventory, choice)
    IN  IF rots = {} THEN {[self EXCEPT !.turn_msg = "No valid orientation"]}
        ELSE IF ~paid.ok THEN {[self EXCEPT !.turn_msg = "Not enough gems"]}
        ELSE
        LET chosen_rot == CHOOSE rot \in rots : \A o \in rots : rot <= o
            placed(lock_level) ==
                commit_piece([self EXCEPT !.inventory = paid.inv],
                             choice, chosen_rot, tr, tc, direction, lock_level)
            \* step 8: one occurrence leaves the deck
            removed(s) == [s EXCEPT !.deck = BagRemove(@, choice)]
            \* step 10
            cleared(s) == [s EXCEPT !.selection_mode = FALSE, !.candidates = <<>>,
                                    !.selection_pos = 0, !.target_cell = NoCell]
        IN  UNION {UNION {open_door_or_move(cleared(s), direction) :
                             s \in on_draw(removed(placed(lock_level)), choice)} :
                   lock_level \in door_lock_for_target_row(tr)}

\* redraw_candidates_spend_die without the die it spends (the variant C18 is
\* checked against).
redraw_candidates_keep_die(self) ==
    IF self.inventory.objets_consommables.des <= 0
    THEN {[self EXCEPT !.turn_msg = "No dice to spend"]}
    ELSE IF ~self.selection_mode \/ self.target_cell = NoCell
    THEN {[self EXCEPT !.turn_msg = "Not in selection mode"]}
    ELSE
    LET tr == self.target_cell[1]
        tc == self.target_cell[2]
        direction == dir_map(tr - self.player_r, tc - self.player_c)
    IN  {IF candidates = <<>>
         THEN [self EXCEPT !.turn_msg = "No legal rooms to redraw"]
         ELSE [self EXCEPT !.candidates = candidates, !.selection_pos = 0,
                           !.turn_msg = "Redrew candidates"] :
            candidates \in generate_candidates(self, tr, tc, direction)}

\* redraw_candidates_spend_die spending the die before it tests the selection
\* mode (the variant C19 is checked against).
redraw_candidates_die_first(self) ==
    IF self.inventory.objets_consommables.des <= 0
    THEN {[self EXCEPT !.turn_msg = "No dice to spend"]}
    ELSE
    LET s1 == [self EXCEPT !.inventory = retirer(@, "des", 1).inv]
        tr == self.target_cell[1]
        tc == self.target_cell[2]
        direction == dir_map(tr - self.player_r, tc - self.player_c)
    IN  IF ~self.selection_mode \/ self.target_cell = NoCell
        THEN {[s1 EXCEPT !.turn_msg = "Not in selection mode"]}
        ELSE {IF candidates = <<>>
              THEN [s1 EXCEPT !.turn_msg = "No legal rooms to redraw"]
              ELSE [s1 EXCEPT !.candidates = candidates, !.selection_pos = 0,
                              !.turn_msg = "Redrew candidates"] :
                 candidates \in generate_candidates(s1, tr, tc, direction)}

\* redraw_candidates_spend_die: the states it can end in.
redraw_candidates_spend_die(self) ==
    IF self.inventory.objets_consommables.des <= 0
    THEN {[self EXCEPT !.turn_msg = "No dice to spend"]}
    ELSE IF ~self.selection_mode \/ self.target_cell = NoCell
    THEN {[self EXCEPT !.turn_msg = "Not in selection mode"]}
    ELSE
    LET s1 == [self EXCEPT !.inventory = retirer(@, "des", 1).inv]
        tr == self.target_cell[1]
        tc == self.target_cell[2]
        direction == dir_map(tr - self.player_r, tc - self.player_c)
    IN  {IF candidates = <<>>
         THEN [s1 EXCEPT !.turn_msg = "No legal rooms to redraw"]
         ELSE [s1 EXCEPT !.candidates = candidates, !.selection_pos = 0,
                         !.turn_msg = "Redrew candidates"] :
            candidates \in generate_candidates(s1, tr, tc, direction)}

\* has_legal_moves, one direction of its loop: TRUE when the loop returns True
\* at direction d.
legal_move_toward(self, d) ==
    LET gems == self.inventory.objets_consommables.gemmes
        keys == self.inventory.objets_consommables.cles
        has_kit == self.inventory.objets_permanents.kit_de_crochetage
        tr == self.player_r + DIRS[d][1]
        tc == self.player_c + DIRS[d][2]
    IN  /\ in_bounds(tr, tc)
        /\ LET cell == self.grid[<<tr, tc>>] IN
           IF cell.piece # None
           THEN LET l0 == cell.doors[OPP[d]]
                    lock == IF l0 = NoDoor THEN 0 ELSE l0
                IN  \/ lock = 0
                    \/ lock = 1 /\ (has_kit \/ keys > 0)
                    \/ lock = 2 /\ keys > 0
           ELSE \E p \in Names :
                   /\ self.deck[p] > 0
                   /\ ~(ROOM_CATALOG[p].cond_deplac = "edge" /\
                        (tr \notin {0, ROWS - 1} /\ tc \notin {0, COLS - 1}))
                   /\ can_place_piece(self, p, tr, tc, d)
                   /\ (ROOM_CATALOG[p].cout = 0 \/ ROOM_CATALOG[p].cout <= gems)

has_legal_moves(self) == \E d \in Dir : legal_move_toward(self, d)

\* shop_menu with a pointer that moves on only after a purchase (the variant
\* C31 is checked against).
shop_menu_sticky(self) ==
    LET coins == self.inventory.objets_consommables.pieces
        offer(cost, item, qty, bought, short) ==
            IF coins >= cost
            THEN [self EXCEPT !.inventory =
                                 ajouter_conso(retirer(@, "pieces", cost).inv, item, qty),
                              !.turn_msg = bought,
                              !.shop_cycle = (self.shop_cycle + 1) % 3]
            ELSE [self EXCEPT !.turn_msg = short]
    IN  IF self.shop_cycle = 0
        THEN offer(10, "cles", 1, "Bought 1 key", "Not enough coins for a key")
        ELSE IF self.shop_cycle = 1
        THEN offer(25, "des", 1, "Bought 1 die", "Not enough coins for a die")
        ELSE offer(8, "pas", 5, "Bought 5 steps", "Not enough coins for steps")

\* shop_menu: one offer per call, then the pointer moves on.
shop_menu(self) ==
    LET coins == self.inventory.objets_consommables.pieces
        offer(cost, item, qty, bought, short) ==
            IF coins >= cost
            THEN [self EXCEPT !.inventory =
                                 ajouter_conso(retirer(@, "pieces", cost).inv, item, qty),
                              !.turn_msg = bought]
            ELSE [self EXCEPT !.turn_msg = short]
        s1 == IF self.shop_cycle = 0
              THEN offer(10, "cles", 1, "Bought 1 key", "Not enough coins for a key")
              ELSE IF self.shop_cycle = 1
              THEN offer(25, "des", 1, "Bought 1 die", "Not enough coins for a die")
              ELSE IF self.shop_cycle = 2
              THEN offer(8, "pas", 5, "Bought 5 steps", "Not enough coins for steps")
              ELSE self
    IN  [s1 EXCEPT !.shop_cycle = (self.shop_cycle + 1) % 3]

\* for name, amt in loot: ajouter_conso(name, amt)
RECURSIVE add_loot(_, _)
add_loot(inv, loot) ==
    IF loot = <<>> THEN inv
    ELSE add_loot(ajouter_conso(inv, loot[1][1], loot[1][2]), Tail(loot))

\* open_and_loot without "self.opened = True" (the variant C23 is checked
\* against).
open_and_loot_unmarked(self, r, c, table, msg) ==
    {[self EXCEPT !.inventory = add_loot(@, loot), !.turn_msg = msg] :
        loot \in roll_loot(table, self.inventory.objets_permanents.detecteur_de_metaux)}

\* The tail shared by the three interact methods: roll, mark opened, grant.
open_and_loot(self, r, c, table, msg) ==
    {[self EXCEPT !.grid[<<r, c>>].interactable.opened = TRUE,
                  !.inventory = add_loot(@, loot),
                  !.turn_msg = msg] :
        loot \in roll_loot(table, self.inventory.objets_permanents.detecteur_de_metaux)}

\* Chest.interact without the key it spends (the variant C22 is checked
\* against).
Chest_interact_unpaid(self, r, c) ==
    IF self.grid[<<r, c>>].interactable.opened
    THEN {[self EXCEPT !.turn_msg = "The chest is empty"]}
    ELSE IF self.inventory.objets_consommables.cles > 0
    THEN open_and_loot(self, r, c, LOOT_TABLE_CHEST, "Used a key to open the chest")
    ELSE IF self.inventory.objets_permanents.marteau
    THEN open_and_loot(self, r, c, LOOT_TABLE_CHEST, "Used the hammer")
    ELSE {[self EXCEPT !.turn_msg = "You need a key or the hammer"]}

Chest_interact(self, r, c) ==
    IF self.grid[<<r, c>>].interactable.opened
    THEN {[self EXCEPT !.turn_msg = "The chest is empty"]}
    ELSE IF self.inventory.objets_consommables.cles > 0
    THEN open_and_loot([self EXCEPT !.inventory = retirer(@, "cles", 1).inv],
                       r, c, LOOT_TABLE_CHEST, "Used a key to open the chest")
    ELSE IF self.inventory.objets_permanents.marteau
    THEN open_and_loot(self, r, c, LOOT_TABLE_CHEST, "Used the hammer")
    ELSE {[self EXCEPT !.turn_msg = "You need a key or the hammer"]}

Casier_interact(self, r, c) ==
    IF self.grid[<<r, c>>].interactable.opened
    THEN {[self EXCEPT !.turn_msg = "The locker is empty"]}
    ELSE IF self.inventory.objets_consommables.cles > 0
    THEN open_and_loot([self EXCEPT !.inventory = retirer(@, "cles", 1).inv],
                       r, c, LOOT_TABLE_CASIER, "Locker opened")
    ELSE {[self EXCEPT !.turn_msg = "You need a key"]}

DigSite_interact(self, r, c) ==
    IF self.grid[<<r, c>>].interactable.opened
    THEN {[self EXCEPT !.turn_msg = "Nothing left to dig here"]}
    ELSE IF ~self.inventory.objets_permanents.pelle
    THEN {[self EXCEPT !.turn_msg = "You need a shovel"]}
    ELSE open_and_loot(self, r, c, LOOT_TABLE_DIG, "You dug the site")

\* interact_current_cell: the states it can end in.
interact_current_cell(self) ==
    LET r == self.player_r
        c == self.player_c
        cell == self.grid[<<r, c>>]
        it == cell.interactable
    IN  IF cell.piece # None /\ PieceOf(cell.piece).on_enter.type = "shop"
        THEN {shop_menu(self)}
        ELSE IF ~isInteractable(it)
        THEN {[self EXCEPT !.turn_msg = "Nothing to interact with"]}
        ELSE IF it.kind = "chest" THEN Chest_interact(self, r, c)
        ELSE IF it.kind = "casier" THEN Casier_interact(self, r, c)
        ELSE DigSite_interact(self, r, c)

\* lose_check without the test of the steps (the variant C12 is checked
\* against).
lose_check_moves_only(self) ==
    IF ~self.selection_mode /\ ~has_legal_moves(self)
    THEN [self EXCEPT !.turn_msg = "No legal move", !.running = FALSE]
    ELSE self

\* The end of one pass of game_loop: the lose condition.
lose_check(self) ==
    IF self.inventory.objets_consommables.pas <= 0
    THEN [self EXCEPT !.turn_msg = "You ran out of steps", !.running = FALSE]
    ELSE IF ~self.selection_mode /\ ~has_legal_moves(self)
    THEN [self EXCEPT !.turn_msg = "No legal move", !.running = FALSE]
    ELSE self

\* ------------------------------------------------------------------ state
VARIABLES
    deck, grid, player_r, player_c, inventory, turn_msg, selection_mode,
    candidates, selection_pos, target_cell, running, in_shop, shop_cycle,
    pc,         \* "loop" while game_loop runs, "quit" once it has returned
    call        \* the last direct call of an Inventory method: arguments and result

vars == <<deck, grid, player_r, player_c, inventory, turn_msg, selection_mode,
          candidates, selection_pos, target_cell, running, in_shop, shop_cycle, pc,
          call>>

\* The Game object as the handlers see it.
Self ==
    [deck |-> deck, grid |-> grid, player_r |-> player_r, player_c |-> player_c,
     inventory |-> inventory, turn_msg |-> turn_msg,
     selection_mode |-> selection_mode, candidates |-> candidates,
     selection_pos |-> selection_pos, target_cell |-> target_cell,
     running |-> running, in_shop |-> in_shop, shop_cycle |-> shop_cycle]

Becomes(n) ==
    /\ deck' = n.deck
    /\ grid' = n.grid
    /\ player_r' = n.player_r
    /\ player_c' = n.player_c
    /\ inventory' = n.inventory
    /\ turn_msg' = n.turn_msg
    /\ selection_mode' = n.selection_mode
    /\ candidates' = n.candidates
    /\ selection_pos' = n.selection_pos
    /\ target_cell' = n.target_cell
    /\ running' = n.running
    /\ in_shop' = n.in_shop
    /\ shop_cycle' = n.shop_cycle

NoCall == [op |-> None]

\* game = Game() at the top of game_loop
InitWith(S) ==
    /\ deck = DeckOf(S)
    /\ grid = Game.grid
    /\ player_r = Game.player_r
    /\ player_c = Game.player_c
    /\ inventory = Game.inventory
    /\ turn_msg = Game.turn_msg
    /\ selection_mode = Game.selection_mode
    /\ candidates = Game.candidates
    /\ selection_pos = Game.selection_pos
    /\ target_cell = Game.target_cell
    /\ running = Game.running
    /\ in_shop = Game.in_shop
    /\ shop_cycle = Game.shop_cycle
    /\ pc = "loop"
    /\ call = NoCall

Init == InitWith(HouseDeck)


\* ------------------------------------------------------------- exploration
\* The part of the game a specification explores: an action is taken only to
\* the states n within its envelope env.
PlacedCount(n) == Cardinality({rc \in Cells : n.grid[rc].piece # None}) - 1

CountersWithin(n) ==
    /\ n.inventory.objets_consommables.gemmes <= MaxGemmes
    /\ n.inventory.objets_consommables.cles <= MaxCles
    /\ n.inventory.objets_consommables.pieces <= MaxPieces
    /\ n.inventory.objets_consommables.pas <= Inventory.objets_consommables.pas

Within(n, env) ==
    /\ CountersWithin(n)
    /\ PlacedCount(n) <= env.placed
    /\ n.inventory.objets_consommables.des <= env.des
    /\ env.whole \/
       n.inventory.objets_consommables.pas >= Inventory.objets_consommables.pas - env.walk

\* Spec: the first MaxWalk steps of a game, with at most MaxPlaced tiles placed.
Explored == [placed |-> MaxPlaced, walk |-> MaxWalk, whole |-> FALSE, des |-> MaxDes]
\* SpecWalk: whole games down to the last step, with at most MaxPlacedWalk
\* tiles placed.
ExploredWalk == [placed |-> MaxPlacedWalk, walk |-> 0, whole |-> TRUE, des |-> MaxDes]
\* SpecTools: the first MaxWalkTools steps of a game on the tool deck, with at
\* most MaxPlaced tiles placed.
ExploredTools ==
    [placed |-> MaxPlaced, walk |-> MaxWalkTools, whole |-> FALSE, des |-> MaxDes]
\* SpecDice: the first MaxWalkDice steps of a game with at most MaxPlacedDice
\* tiles placed, dice kept when found.
ExploredDice ==
    [placed |-> MaxPlacedDice, walk |-> MaxWalkDice, whole |-> FALSE, des |-> MaxDice]

\* ---------------------------------------------------------------- actions
\* One action per key of game_loop.

\* Z/Q/S/D or an arrow, outside selection mode
KeyMove(d, env) ==
    /\ pc = "loop"
    /\ ~selection_mode
    /\ \E n \in open_door_or_move(Self, d) : Within(n, env) /\ Becomes(n)
    /\ pc' = pc
    /\ call' = call

\* E, outside selection mode
KeyInteract(env) ==
    /\ pc = "loop"
    /\ ~selection_mode
    /\ \E n \in interact_current_cell(Self) : Within(n, env) /\ Becomes(n)
    /\ pc' = pc
    /\ call' = call

\* RETURN in selection mode
KeyReturn(env) ==
    /\ pc = "loop"
    /\ selection_mode
    /\ \E n \in confirm_selection(Self) : Within(n, env) /\ Becomes(n)
    /\ pc' = pc
    /\ call' = call

\* R in selection mode
KeyRedraw(env) ==
    /\ pc = "loop"
    /\ selection_mode
    /\ \E n \in redraw_candidates_spend_die(Self) : Within(n, env) /\ Becomes(n)
    /\ pc' = pc
    /\ call' = call

\* LEFT / Q in selection mode: selection_pos = max(0, selection_pos - 1)
KeyCursorLeft ==
    /\ pc = "loop"
    /\ selection_mode
    /\ selection_pos' = IF selection_pos - 1 > 0 THEN selection_pos - 1 ELSE 0
    /\ pc' = pc
    /\ call' = call
    /\ UNCHANGED <<deck, grid, player_r, player_c, inventory, turn_msg, selection_mode,
                   candidates, target_cell, running, in_shop, shop_cycle>>

\* The RIGHT key without the bound len(candidates) - 1 (the variant C26 is
\* checked against).
KeyCursorRightUnbounded ==
    /\ pc = "loop"
    /\ selection_mode
    /\ selection_pos' = selection_pos + 1
    /\ pc' = pc
    /\ call' = call
    /\ UNCHANGED <<deck, grid, player_r, player_c, inventory, turn_msg, selection_mode,
                   candidates, target_cell, running, in_shop, shop_cycle>>

\* RIGHT / D in selection mode:
\* selection_pos = min(len(candidates) - 1, selection_pos + 1)
KeyCursorRight ==
    /\ pc = "loop"
    /\ selection_mode
    /\ selection_pos' = IF Len(candidates) - 1 < selection_pos + 1
                        THEN Len(candidates) - 1 ELSE selection_pos + 1
    /\ pc' = pc
    /\ call' = call
    /\ UNCHANGED <<deck, grid, player_r, player_c, inventory, turn_msg, selection_mode,
                   candidates, target_cell, running, in_shop, shop_cycle>>

\* The end of a pass of the loop, after the queued events: the lose check,
\* and the return from game_loop once running is False.
FrameEnd ==
    /\ pc = "loop"
    /\ LET n == lose_check(Self)
       IN  /\ Becomes(n)
           /\ pc' = IF n.running THEN "loop" ELSE "quit"
    /\ call' = call

\* ---------------------------------------------------------- specifications
Next ==
    \/ \E d \in Dir : KeyMove(d, Explored)
    \/ KeyInteract(Explored)
    \/ KeyReturn(Explored)
    \/ KeyRedraw(Explored)
    \/ KeyCursorLeft
    \/ KeyCursorRight
    \/ FrameEnd

Spec == Init /\ [][Next]_vars

NextWalk ==
    \/ \E d \in Dir : KeyMove(d, ExploredWalk)
    \/ KeyInteract(ExploredWalk)
    \/ KeyReturn(ExploredWalk)
    \/ KeyRedraw(ExploredWalk)
    \/ KeyCursorLeft
    \/ KeyCursorRight
    \/ FrameEnd

SpecWalk == Init /\ [][NextWalk]_vars

NextDice ==
    \/ \E d \in Dir : KeyMove(d, ExploredDice)
    \/ KeyInteract(ExploredDice)
    \/ KeyReturn(ExploredDice)
    \/ KeyRedraw(ExploredDice)
    \/ KeyCursorLeft
    \/ KeyCursorRight
    \/ FrameEnd

SpecDice == Init /\ [][NextDice]_vars

\* SpecTools: the first MaxWalkTools steps of a game on the deck of the tiles
\* that grant the tools, with at most MaxPlaced tiles placed.
InitTools == InitWith(ToolDeck)

NextTools ==
    \/ \E d \in Dir : KeyMove(d, ExploredTools)
    \/ KeyInteract(ExploredTools)
    \/ KeyReturn(ExploredTools)
    \/ KeyRedraw(ExploredTools)
    \/ KeyCursorLeft
    \/ KeyCursorRight
    \/ FrameEnd

SpecTools == InitTools /\ [][NextTools]_vars

\* SpecPorts: the first MaxWalkPorts steps of a game on a deck of two free
\* tiles, one with three ports and one with a single port, with at most
\* MaxPlacedPorts tiles placed: enough to close a square of four cells.
MaxPlacedPorts == 3
MaxWalkPorts == 8
PortDeck == {"Gymnasium", "Storeroom"}
ExploredPorts ==
    [placed |-> MaxPlacedPorts, walk |-> MaxWalkPorts, whole |-> FALSE, des |-> MaxDes]

InitPorts == InitWith(PortDeck)

NextPorts ==
    \/ \E d \in Dir : KeyMove(d, ExploredPorts)
    \/ KeyInteract(ExploredPorts)
    \/ KeyReturn(ExploredPorts)
    \/ KeyRedraw(ExploredPorts)
    \/ KeyCursorLeft
    \/ KeyCursorRight
    \/ FrameEnd

SpecPorts == InitPorts /\ [][NextPorts]_vars

\* SpecFood: whole games down to the last step on a deck of two free tiles
\* with a single port, one of which feeds the player, with at most
\* MaxPlacedFood tiles placed.
MaxPlacedFood == 2
FoodDeck == {"Guest Bedroom", "Storeroom"}
ExploredFood == [placed |-> MaxPlacedFood, walk |-> 0, whole |-> TRUE, des |-> MaxDes]

InitFood == InitWith(FoodDeck)

NextFood ==
    \/ \E d \in Dir : KeyMove(d, ExploredFood)
    \/ KeyInteract(ExploredFood)
    \/ KeyReturn(ExploredFood)
    \/ KeyRedraw(ExploredFood)
    \/ KeyCursorLeft
    \/ KeyCursorRight
    \/ FrameEnd

SpecFood == InitFood /\ [][NextFood]_vars

\* SpecRetirer: direct calls of Inventory.retirer, on every stock of
\* 0..MaxStock per resource, for every quantity of 0..MaxQty.
MaxStock == 2
MaxQty == 3

InitRetirer ==
    /\ deck = Game.deck
    /\ grid = Game.grid
    /\ player_r = Game.player_r
    /\ player_c = Game.player_c
    /\ \E stock \in [Consommables -> 0..MaxStock] :
          inventory = [Inventory EXCEPT !.objets_consommables = stock]
    /\ turn_msg = Game.turn_msg
    /\ selection_mode = Game.selection_mode
    /\ candidates = Game.candidates
    /\ selection_pos = Game.selection_pos
    /\ target_cell = Game.target_cell
    /\ running = Game.running
    /\ in_shop = Game.in_shop
    /\ shop_cycle = Game.shop_cycle
    /\ pc = "loop"
    /\ call = NoCall

\* game.inventory.retirer(nom_objet, quantitee)
CallRetirer(nom_objet, quantitee) ==
    /\ LET res == retirer(inventory, nom_objet, quantitee)
       IN  /\ inventory' = res.inv
           /\ call' = [op |-> "retirer", nom_objet |-> nom_objet,
                       quantitee |-> quantitee, ok |-> res.ok, before |-> inventory]
    /\ UNCHANGED <<deck, grid, player_r, player_c, turn_msg, selection_mode,
                   candidates, selection_pos, target_cell, running, in_shop,
                   shop_cycle, pc>>

NextRetirer == \E nom_objet \in Consommables, quantitee \in 0..MaxQty :
                  CallRetirer(nom_objet, quantitee)

SpecRetirer == InitRetirer /\ [][NextRetirer]_vars

\* SpecSample: direct calls of weighted_sample_no_replacement, on every pool
\* of 0..MaxCopies references to each tile of SampleTiles, for every k of
\* 0..MaxK. The pool passed is held in deck.
MaxCopies == 2
MaxK == 4
SampleTiles == {"Attic", "Ballroom", "Gymnasium"}

InitSample ==
    /\ \E pool \in [Names -> 0..MaxCopies] :
          /\ \A n \in Names \ SampleTiles : pool[n] = 0
          /\ deck = pool
    /\ grid = Game.grid
    /\ player_r = Game.player_r
    /\ player_c = Game.player_c
    /\ inventory = Inventory
    /\ turn_msg = Game.turn_msg
    /\ selection_mode = Game.selection_mode
    /\ candidates = Game.candidates
    /\ selection_pos = Game.selection_pos
    /\ target_cell = Game.target_cell
    /\ running = Game.running
    /\ in_shop = Game.in_shop
    /\ shop_cycle = Game.shop_cycle
    /\ pc = "loop"
    /\ call = NoCall

\* selected = weighted_sample_no_replacement(pool, k)
CallSample(k) ==
    /\ \E res \in weighted_sample_call(deck, k) :
          /\ deck' = res.pool
          /\ call' = [op |-> "sample", pool |-> deck, k |-> k, selected |-> res.selected]
    /\ UNCHANGED <<grid, player_r, player_c, inventory, turn_msg, selection_mode,
                   candidates, selection_pos, target_cell, running, in_shop,
                   shop_cycle, pc>>

NextSample == \E k \in 0..MaxK : CallSample(k)

SpecSample == InitSample /\ [][NextSample]_vars

\* SpecCalls: direct calls of open_door_or_move and interact_current_cell on
\* games set up around the start cell: a piece committed above it (behind any
\* lock door_lock_for_target_row can give) and one on its left, an unopened
\* interactable on the player's cell, MaxCallCles keys at most, the hammer and
\* the shovel both held or both missing, and 0 to MaxCallPas steps left.
MaxCallPas == 3
MaxCallCles == 1
MaxCallGemmes == 3
MaxCallPieces == 15
MaxInstances == 2
\* The tiles of the deck of SpecCalls.
CallDeck == {"Attic"}

\* The board after piece is committed to the cell t reached from the start
\* cell in direction d, behind lock_level (the first rotation that fits).
Committed(g, piece, t, d, lock_level) ==
    IF piece = None THEN g
    ELSE LET rots == {rot \in 0..3 :
                          can_place_with_ports(g, rotated_ports(PieceOf(piece).ports, rot),
                                               t[1], t[2], d)}
             chosen_rot == CHOOSE rot \in rots : \A o \in rots : rot <= o
         IN  commit_piece(g, piece, chosen_rot, t[1], t[2], d, lock_level)

InitCalls ==
    \E above \in {None, "Antechamber"}, beside \in {None, "Courtyard"},
       lock_level \in door_lock_for_target_row(start_r - 1),
       kind \in {None, "chest", "casier", "dig_site"},
       steps \in 0..MaxCallPas, keys \in 0..MaxCallCles, tools \in BOOLEAN :
        LET g1 == Committed(Game, above, <<start_r - 1, start_c>>, "up", lock_level)
            g2 == Committed(g1, beside, <<start_r, start_c - 1>>, "left", 0)
        IN  /\ (above = None => lock_level = 0)
            /\ grid = [g2.grid EXCEPT ![<<start_r, start_c>>].interactable =
                          IF kind = None THEN NoInteractable ELSE Interactable(kind)]
            /\ inventory = [Inventory EXCEPT !.objets_consommables.pas = steps,
                                             !.objets_consommables.cles = keys,
                                             !.objets_permanents.marteau = tools,
                                             !.objets_permanents.pelle = tools]
            /\ deck = DeckOf(CallDeck)
            /\ player_r = Game.player_r
            /\ player_c = Game.player_c
            /\ turn_msg = Game.turn_msg
            /\ selection_mode = Game.selection_mode
            /\ candidates = Game.candidates
            /\ selection_pos = Game.selection_pos
            /\ target_cell = Game.target_cell
            /\ running = Game.running
            /\ in_shop = Game.in_shop
            /\ shop_cycle = Game.shop_cycle
            /\ pc = "loop"
            /\ call = NoCall

\* The calls are followed as long as the counters stay within these, and no
\* cell has had more than MaxInstances interactables.
WithinCalls(n) ==
    /\ n.inventory.objets_consommables.pas <= MaxCallPas
    /\ n.inventory.objets_consommables.cles <= MaxCallCles
    /\ n.inventory.objets_consommables.gemmes <= MaxCallGemmes
    /\ n.inventory.objets_consommables.pieces <= MaxCallPieces
    /\ n.inventory.objets_consommables.des <= MaxDes
    /\ \A rc \in Cells : n.grid[rc].interactable.instance <= MaxInstances

\* game.open_door_or_move(d)
CallMove(d) ==
    /\ ~selection_mode
    /\ \E n \in open_door_or_move(Self, d) : WithinCalls(n) /\ Becomes(n)
    /\ pc' = pc
    /\ call' = call

\* game.interact_current_cell()
CallInteract ==
    /\ ~selection_mode
    /\ \E n \in interact_current_cell(Self) : WithinCalls(n) /\ Becomes(n)
    /\ pc' = pc
    /\ call' = call

NextCalls ==
    \/ \E d \in Dir : CallMove(d)
    \/ CallInteract

SpecCalls == InitCalls /\ [][NextCalls]_vars

\* ------------------------------------------------- the shop, called directly
\* SpecShop: open_door_or_move and interact_current_cell on a board with a
\* Commissary committed to the left of the start cell, the player on the start
\* cell with 0 to MaxShopPieces coins and 1 to MaxShopPas steps left. The
\* variable call counts the calls of shop_menu.
MaxShopPieces == 45
MaxShopPas == 6
MaxShopCles == 1
MaxShopDes == 1
MaxShopCalls == 6

ShopCalls(k) == [op |-> "shop_menu", n |-> k]

\* The player stands on a tile whose on_enter type is 'shop'.
OnShop(self) ==
    LET cell == self.grid[<<self.player_r, self.player_c>>]
    IN  cell.piece # None /\ PieceOf(cell.piece).on_enter.type = "shop"

InitShop ==
    \E coins \in 0..MaxShopPieces, steps \in 1..MaxShopPas :
        LET g == Committed(Game, "Commissary", <<start_r, start_c - 1>>, "left", 0)
        IN  /\ grid = g.grid
            /\ inventory = [Inventory EXCEPT !.objets_consommables.pas = steps,
                                             !.objets_consommables.pieces = coins,
                                             !.objets_consommables.gemmes = 1]
            /\ deck = DeckOf(CallDeck)
            /\ player_r = Game.player_r
            /\ player_c = Game.player_c
            /\ turn_msg = Game.turn_msg
            /\ selection_mode = Game.selection_mode
            /\ candidates = Game.candidates
            /\ selection_pos = Game.selection_pos
            /\ target_cell = Game.target_cell
            /\ running = Game.running
            /\ in_shop = Game.in_shop
            /\ shop_cycle = Game.shop_cycle
            /\ pc = "loop"
            /\ call = ShopCalls(0)

\* The calls are followed as long as the counters stay within these.
WithinShop(n) ==
    /\ n.inventory.objets_consommables.pas <= MaxShopPas
    /\ n.inventory.objets_consommables.cles <= MaxShopCles
    /\ n.inventory.objets_consommables.gemmes <= 1
    /\ n.inventory.objets_consommables.pieces <= MaxShopPieces
    /\ n.inventory.objets_consommables.des <= MaxShopDes

\* game.open_door_or_move(d)
ShopMove(d) ==
    /\ ~selection_mode
    /\ \E n \in open_door_or_move(Self, d) : WithinShop(n) /\ Becomes(n)
    /\ pc' = pc
    /\ call' = call

\* game.interact_current_cell()
ShopInteract ==
    /\ ~selection_mode
    /\ call.n < MaxShopCalls
    /\ \E n \in interact_current_cell(Self) : WithinShop(n) /\ Becomes(n)
    /\ pc' = pc
    /\ call' = IF OnShop(Self) THEN ShopCalls(call.n + 1) ELSE call

NextShop ==
    \/ \E d \in Dir : ShopMove(d)
    \/ ShopInteract

SpecShop == InitShop /\ [][NextShop]_vars

\* ------------------------------------------------------------------ claims
pas == inventory.objets_consommables.pas
gemmes == inventory.objets_consommables.gemmes
cles == inventory.objets_consommables.cles
Occupied(rc) == grid[rc].piece # None
Neighbour(rc, d) == <<rc[1] + DIRS[d][1], rc[2] + DIRS[d][2]>>
Start == <<start_r, start_c>>

\* C1: for every pair of orthogonally adjacent occupied cells, the first has a
\* port on the shared side exactly when the second has one on the opposite side.
C1_PortReciprocity ==
    \A rc \in Cells : \A d \in Dir :
        LET n == Neighbour(rc, d)
        IN  (n \in Cells /\ Occupied(rc) /\ Occupied(n)) =>
               (cell_ports(Self, rc[1], rc[2])[d] <=>
                cell_ports(Self, n[1], n[2])[OPP[d]])

\* Two placed tiles side by side, connected through facing ports.
C1_Witness ==
    \E rc \in Cells \ {Start} : \E d \in Dir :
        LET n == Neighbour(rc, d)
        IN  /\ n \in Cells \ {Start}
            /\ Occupied(rc) /\ Occupied(n)
            /\ cell_ports(Self, rc[1], rc[2])[d]
            /\ cell_ports(Self, n[1], n[2])[OPP[d]]

\* C4: retirer(name, q) with q >= 0 returns True exactly when the stock of name
\* is at least q; then that stock decreases by exactly q and stays >= 0; else
\* the inventory is unchanged. No other counter changes either way.
C4_RetirerContract ==
    call.op = "retirer" =>
        LET before == call.before.objets_consommables
            after == inventory.objets_consommables
            nom == call.nom_objet
            q == call.quantitee
        IN  /\ call.ok <=> before[nom] >= q
            /\ call.ok => after[nom] = before[nom] - q /\ after[nom] >= 0
            /\ ~call.ok => inventory = call.before
            /\ \A k \in Consommables \ {nom} : after[k] = before[k]
            /\ inventory.objets_permanents = call.before.objets_permanents

\* A call rejected although some of the resource was in stock.
C4_Witness ==
    /\ call.op = "retirer"
    /\ ~call.ok
    /\ call.before.objets_consommables[call.nom_objet] >= 1
    /\ inventory = call.before

\* The confirm in progress: its target, the candidate under the cursor, the
\* cell and the side it is explored from.
Selecting == selection_mode /\ target_cell # NoCell
chosen == candidates[selection_pos + 1]
origin == <<player_r, player_c>>
toward == dir_map(target_cell[1] - player_r, target_cell[2] - player_c)
\* This step is a confirm that commits a tile to the target cell.
Commits == Selecting /\ grid'[target_cell].piece # grid[target_cell].piece
\* What on_enter of tile p can add to the steps: its food amount, and the
\* incidental find of 3 steps.
EnterGrants(p) ==
    LET e == ROOM_CATALOG[p].on_enter
        food == IF e.type = "food" THEN e.amount ELSE 0
    IN  {food, food + 3}
\* What on_draw of tile p adds to the gems.
DrawGems(p) == IF ROOM_CATALOG[p].on_draw.type = "gem_always" THEN 1 ELSE 0

\* C2 as stated: every confirm that commits a tile ends with the player in the
\* target cell and the steps decreased by exactly 1 (before on_enter grants).
C2_CommitAlwaysMoves ==
    [][Commits =>
          /\ <<player_r', player_c'>> = target_cell
          /\ pas' - (pas - 1) \in EnterGrants(chosen)]_vars

\* C2 amended: a confirm that commits a tile ends with the player in the target
\* cell, one step spent and the new door open on both sides, or else with the
\* tile committed and paid for, the player still in the origin cell and the
\* steps unchanged; the second happens only when no step is left or the new
\* door drew a lock of level 1 or 2 that no key and no usable kit opens. With a
\* key and a step in hand the player always ends in the target cell.
C2_CommitMovesUnlessBlocked ==
    [][Commits =>
          LET moved == <<player_r', player_c'>> = target_cell
              door == grid'[target_cell].doors[opposite(toward)]
              kit == inventory.objets_permanents.kit_de_crochetage
          IN  /\ grid'[target_cell].piece = chosen
              /\ gemmes' >= gemmes - ROOM_CATALOG[chosen].cout + DrawGems(chosen)
              /\ moved =>
                    /\ pas >= 1
                    /\ pas' - (pas - 1) \in EnterGrants(chosen)
                    /\ door = 0
                    /\ grid'[origin].doors[toward] = 0
              /\ ~moved =>
                    /\ <<player_r', player_c'>> = origin
                    /\ pas' = pas
                    /\ gemmes' = gemmes - ROOM_CATALOG[chosen].cout + DrawGems(chosen)
                    /\ \/ pas <= 0
                       \/ /\ door \in {1, 2}
                          /\ grid'[origin].doors[toward] = door
                          /\ cles = 0
                          /\ ~(kit /\ door = 1)
              /\ (pas >= 1 /\ cles >= 1) => moved]_vars

\* One tile committed and paid for, the player still on the start cell with all
\* the steps, in front of the locked door of the new tile.
C2_Witness ==
    /\ PlacedCount(Self) = 1
    /\ ~selection_mode
    /\ origin = Start
    /\ pas = Inventory.objets_consommables.pas
    /\ turn_msg = "Door is locked"
    /\ \E d \in Dir : LET n == Neighbour(Start, d)
                      IN  n \in Cells /\ Occupied(n) /\ grid[n].doors[OPP[d]] \in {1, 2}

\* C3: in every reachable state each consumable counter is >= 0.
C3_CountersNonNegative ==
    \A k \in Consommables : inventory.objets_consommables[k] >= 0

\* C5: a cell that holds a tile keeps that tile and its rotation in every
\* later step, and a tile is only ever written by a confirm into its target
\* cell, empty at that moment.
C5_PieceWriteOnce ==
    [][\A rc \in Cells :
          /\ Occupied(rc) =>
                /\ grid'[rc].piece = grid[rc].piece
                /\ grid'[rc].rotation = grid[rc].rotation
          /\ grid'[rc].piece # grid[rc].piece =>
                (Selecting /\ rc = target_cell /\ grid[rc].piece = None)]_vars

\* Two tiles committed one after the other, the player standing in the second.
C5_Witness ==
    /\ PlacedCount(Self) = 2
    /\ origin # Start
    /\ \E d \in Dir : LET n == Neighbour(origin, d)
                      IN  n \in Cells \ {Start} /\ Occupied(n)

\* C6: a committed placement removes exactly one instance of the placed tile
\* from the deck and nothing else; when the tile's on_draw is inc_green_weight
\* or inc_fire_weight, two copies are added after the removal.
C6_DeckShrinksByOne ==
    [][Commits =>
          LET less == [deck EXCEPT ![chosen] = @ - 1]
              grows == ROOM_CATALOG[chosen].on_draw.type \in
                          {"inc_green_weight", "inc_fire_weight"}
          IN  /\ deck[chosen] >= 1
              /\ ~grows => deck' = less /\ BagSize(deck') = BagSize(deck) - 1
              /\ grows => /\ BagSize(deck') = BagSize(less) + 2
                          /\ \A n \in Names : deck'[n] >= less[n]]_vars

\* Two placements, one of them a Greenhouse (inc_green_weight): -1 -1 +2.
C6_Witness ==
    /\ PlacedCount(Self) = 2
    /\ \E rc \in Cells : grid[rc].piece = "Greenhouse"
    /\ BagSize(deck) = BagSize(DeckOf(HouseDeck))

\* C7: confirming a candidate whose cost exceeds the gems changes nothing but
\* the message: gems, deck, board, position, steps, target cell, candidates
\* and cursor stay, and the game stays in Selecting.
C7_UnaffordableConfirmRejected ==
    (Selecting /\ ROOM_CATALOG[chosen].cout > gemmes) =>
        confirm_selection(Self) = {[Self EXCEPT !.turn_msg = "Not enough gems"]}

\* Just after such a rejected confirm.
C7_Witness ==
    /\ Selecting
    /\ ROOM_CATALOG[chosen].cout > gemmes
    /\ turn_msg = "Not enough gems"

\* The occupied neighbour in direction d stands behind a lock of level 2.
StrongLock(d) ==
    LET t == neighbor_target(Self, d)
    IN  t \in Cells /\ Occupied(t) /\ grid[t].doors[opposite(d)] = 2

\* The consumables after entering tile p from stock c: what on_enter grants
\* (coins, food) and the incidental find f (None: no find).
AfterEntering(c, p, f) ==
    LET e == ROOM_CATALOG[p].on_enter
        c1 == IF e.type = "coins" THEN [c EXCEPT !.pieces = @ + e.amount]
              ELSE IF e.type = "food" THEN [c EXCEPT !.pas = @ + e.amount]
              ELSE c
    IN  IF f = None THEN c1
        ELSE [c1 EXCEPT ![f] = @ + (IF f = "pieces" THEN 5 ELSE IF f = "pas" THEN 3 ELSE 1)]

\* C8: a move toward an occupied neighbour behind a lock of level 2 is rejected
\* with 0 keys (nothing but the message changes); with a key and a step it spends
\* exactly one key, sets the lock to 0 on both sides and enters with exactly
\* one step spent.
C8_StrongLock ==
    ~selection_mode =>
        \A d \in Dir :
            StrongLock(d) =>
                LET t == neighbor_target(Self, d)
                    c == inventory.objets_consommables
                    spent == [c EXCEPT !.cles = @ - 1, !.pas = @ - 1]
                IN  /\ cles = 0 =>
                           open_door_or_move(Self, d) =
                               {[Self EXCEPT !.turn_msg = "Door is locked"]}
                    /\ (cles >= 1 /\ pas >= 1) =>
                           \A n \in open_door_or_move(Self, d) :
                               /\ <<n.player_r, n.player_c>> = t
                               /\ n.grid[t].doors[opposite(d)] = 0
                               /\ n.grid[origin].doors[d] = 0
                               /\ \E f \in {None} \cup Consommables :
                                     n.inventory.objets_consommables =
                                         AfterEntering(spent, grid[t].piece, f)
                               /\ n.inventory.objets_permanents =
                                     inventory.objets_permanents
                               /\ n.deck = deck

\* The player holds a key and a step in front of a level-2 lock.
C8_Witness ==
    /\ ~selection_mode
    /\ pc = "loop"
    /\ cles >= 1
    /\ pas >= 1
    /\ \E d \in Dir : StrongLock(d)

\* C9: before any placement the inventory is steps 70, coins 0, gems 2, keys 0,
\* dice 0, and a move from the start cell toward an in-bounds side where the
\* start tile has a port enters Selecting with 1 to 3 candidates, one of cost 0.
C9_FreshGame ==
    PlacedCount(Self) = 0 =>
        /\ inventory.objets_consommables =
              [pas |-> 70, pieces |-> 0, gemmes |-> 2, cles |-> 0, des |-> 0]
        /\ origin = Start
        /\ ~selection_mode =>
              \A d \in Dir :
                  (neighbor_target(Self, d) \in Cells /\
                   ROOM_CATALOG["Entrance Hall"].ports[d]) =>
                      \A n \in open_door_or_move(Self, d) :
                          /\ n.selection_mode
                          /\ n.target_cell = neighbor_target(Self, d)
                          /\ Len(n.candidates) \in 1..3
                          /\ \E i \in 1..Len(n.candidates) :
                                ROOM_CATALOG[n.candidates[i]].cout = 0

\* The first move of a game has opened the selection: three candidates, one free.
C9_Witness ==
    /\ PlacedCount(Self) = 0
    /\ Selecting
    /\ Len(candidates) = 3
    /\ \E i \in 1..3 : ROOM_CATALOG[candidates[i]].cout = 0
    /\ \E i \in 1..3 : ROOM_CATALOG[candidates[i]].cout > 0

LockToward(d) ==
    LET l == grid[neighbor_target(Self, d)].doors[opposite(d)]
    IN  IF l = NoDoor THEN 0 ELSE l

\* C11: toward an in-bounds occupied neighbour, has_legal_moves counts a move
\* exactly when the lock is 0, or 1 with the kit or a key, or 2 with a key; and
\* with a step left, open_door_or_move changes the player's position exactly
\* when has_legal_moves counts the move.
C11_OccupiedNeighbourLegality ==
    \A d \in Dir :
        LET t == neighbor_target(Self, d)
            kit == inventory.objets_permanents.kit_de_crochetage
            openable == \/ LockToward(d) = 0
                        \/ LockToward(d) = 1 /\ (kit \/ cles >= 1)
                        \/ LockToward(d) = 2 /\ cles >= 1
        IN  (t \in Cells /\ Occupied(t)) =>
               /\ legal_move_toward(Self, d) <=> openable
               /\ pas >= 1 =>
                     \A n \in open_door_or_move(Self, d) :
                         (<<n.player_r, n.player_c>> # origin) <=>
                             legal_move_toward(Self, d)

\* The kit in hand in front of a level-1 lock, and a step to spend.
C11_Witness ==
    /\ ~selection_mode
    /\ pc = "loop"
    /\ inventory.objets_permanents.kit_de_crochetage
    /\ cles = 0
    /\ pas >= 1
    /\ \E d \in Dir : LET t == neighbor_target(Self, d)
                      IN  t \in Cells /\ Occupied(t) /\ LockToward(d) = 1

BorderRow(r) == r = 0 \/ r = ROWS - 1
BorderCol(c) == c = 0 \/ c = COLS - 1
\* The tile named p may stand on the cell rc as far as its zone goes.
ZoneAllows(p, rc) ==
    LET zone == ROOM_CATALOG[p].cond_deplac
    IN  /\ zone = "edge" => (BorderRow(rc[1]) \/ BorderCol(rc[2]))
        /\ zone = "corner" => (BorderRow(rc[1]) /\ BorderCol(rc[2]))
        /\ zone = "center" => (~BorderRow(rc[1]) /\ ~BorderCol(rc[2]))

\* C13: in every reachable state every placed tile stands where its zone
\* allows (an 'edge' tile on a border row or column, a 'corner' tile on both,
\* a 'center' tile strictly inside), and every candidate offered in Selecting
\* is allowed by its zone on the target cell.
C13_ZoneRespected ==
    /\ \A rc \in Cells : Occupied(rc) => ZoneAllows(grid[rc].piece, rc)
    /\ Selecting =>
          \A i \in 1..Len(candidates) : ZoneAllows(candidates[i], target_cell)

\* A corner tile stands in a corner, and an edge tile is offered for a border
\* cell while a center tile of the deck is not.
C13_Witness ==
    /\ \E rc \in Cells : Occupied(rc) /\ ROOM_CATALOG[grid[rc].piece].cond_deplac = "corner"
    /\ Selecting
    /\ \E i \in 1..Len(candidates) : ROOM_CATALOG[candidates[i]].cond_deplac = "edge"
    /\ \E p \in Names : deck[p] > 0 /\ ROOM_CATALOG[p].cond_deplac = "center"

\* One quarter turn clockwise brings to side d the port that was on
\* TurnsFrom[d].
TurnsFrom == [up |-> "left", right |-> "up", down |-> "right", left |-> "down"]
\* The tile named p, turned r quarter turns clockwise, has a port on side d.
RECURSIVE Facing(_, _, _)
Facing(p, r, d) ==
    IF r = 0 THEN ROOM_CATALOG[p].ports[d] ELSE Facing(p, r - 1, TurnsFrom[d])
\* The tile named p turned r quarter turns suits the cell t reached in
\* direction d: (1) a port faces back to the origin, (2) no port points off
\* the board, (3) it agrees both ways with every occupied neighbour.
RotationFits(p, r, t, d) ==
    /\ Facing(p, r, OPP[d])
    /\ \A dd \in Dir : Facing(p, r, dd) => Neighbour(t, dd) \in Cells
    /\ \A dd \in Dir :
          LET nb == Neighbour(t, dd)
          IN  (nb \in Cells /\ Occupied(nb)) =>
                 (Facing(p, r, dd) <=>
                  Facing(grid[nb].piece, grid[nb].rotation, OPP[dd]))

\* C14: can_place_piece(tile, cell, dir) is True exactly when some rotation r
\* in 0..3 makes the rotated ports include a port facing back to the origin,
\* point at no off-board cell and agree in both directions with every occupied
\* neighbour (for every tile of the catalog, on every cell next to the
\* player's, in the direction leading to it); and a confirm that commits a
\* tile gives it the smallest such r.
C14_SmallestFittingRotation ==
    /\ [](\A p \in Names : \A d \in Dir :
             LET t == Neighbour(origin, d)
             IN  t \in Cells =>
                    (can_place_piece(Self, p, t[1], t[2], d) <=>
                     \E r \in 0..3 : RotationFits(p, r, t, d)))
    /\ [][Commits =>
             LET r == grid'[target_cell].rotation
             IN  /\ r \in 0..3
                 /\ RotationFits(chosen, r, target_cell, toward)
                 /\ \A o \in 0..3 : o < r => ~RotationFits(chosen, o, target_cell, toward)]_vars

\* A tile committed half a turn round, no smaller rotation fitting its cell.
C14_Witness ==
    \E rc \in Cells :
        /\ Occupied(rc)
        /\ grid[rc].rotation = 2
        /\ rc # Start

\* C15: weighted_sample_no_replacement returns pairwise distinct tiles, also
\* from a pool holding several references to one tile, so the candidates
\* shown in Selecting never contain the same tile twice.
C15_CandidatesDistinct ==
    Selecting =>
        \A i, j \in 1..Len(candidates) : i # j => candidates[i] # candidates[j]

\* Occurrences of x in the sequence s.
Count(s, x) == Cardinality({i \in 1..Len(s) : s[i] = x})

\* C16: weighted_sample_no_replacement(pool, k) returns exactly
\* min(k, len(pool)) items forming a sub-multiset of pool, the whole pool when
\* k >= len(pool), and leaves the pool passed unchanged.
C16_SampleContract ==
    call.op = "sample" =>
        LET len == BagSize(call.pool)
        IN  /\ Len(call.selected) = (IF call.k < len THEN call.k ELSE len)
            /\ \A x \in Names : Count(call.selected, x) <= call.pool[x]
            /\ call.k >= len => \A x \in Names : Count(call.selected, x) = call.pool[x]
            /\ deck = call.pool

\* A call with k below the size of the pool that returned two references to
\* one tile, and a call with k above it.
C16_Witness ==
    /\ call.op = "sample"
    /\ \/ /\ call.k = 2
          /\ BagSize(call.pool) >= 4
          /\ Len(call.selected) = 2
          /\ call.selected[1] = call.selected[2]
       \/ /\ call.k > BagSize(call.pool)
          /\ BagSize(call.pool) >= 3
          /\ Len(call.selected) = BagSize(call.pool)

des == inventory.objets_consommables.des

\* C18: a redraw in Selecting with at least one die consumes exactly one die,
\* replaces the candidate list by a fresh draw for the same target cell and
\* direction and remains Selecting, with board, deck, gems, steps and player
\* position unchanged; with no die it changes nothing but the message.
C18_RedrawSpendsOneDie ==
    Selecting =>
        LET out == redraw_candidates_spend_die(Self)
            fresh == generate_candidates(Self, target_cell[1], target_cell[2], toward)
        IN  /\ out # {}
            /\ des = 0 => \A n \in out : [n EXCEPT !.turn_msg = turn_msg] = Self
            /\ des >= 1 =>
                  \A n \in out :
                      /\ n.inventory =
                            [inventory EXCEPT !.objets_consommables.des = @ - 1]
                      /\ n.candidates \in fresh
                      /\ n.candidates # <<>>
                      /\ n.turn_msg = "Redrew candidates"
                      /\ n.selection_mode
                      /\ n.target_cell = target_cell
                      /\ n.grid = grid
                      /\ n.deck = deck
                      /\ <<n.player_r, n.player_c>> = origin
                      /\ n.running = running
            /\ des >= 1 => \A c \in fresh : \E n \in out : n.candidates = c

\* Selecting after a redraw that spent the last die.
C18_Witness ==
    /\ Selecting
    /\ turn_msg = "Redrew candidates"
    /\ des = 0
    /\ candidates # <<>>

\* The outcomes out of a command leave the game as it is, but for the message.
MessageOnly(out) ==
    /\ out # {}
    /\ \A n \in out : [n EXCEPT !.turn_msg = turn_msg] = Self
\* Some tile of the deck may be placed on the empty cell t reached in
\* direction d.
SomeTileLegal(t, d) ==
    \E p \in Names :
        /\ deck[p] > 0
        /\ ZoneAllows(p, t)
        /\ \E r \in 0..3 : RotationFits(p, r, t, d)

\* C19: rejected commands are no-ops. Outside Selecting, a move toward an
\* out-of-bounds cell, a move toward an empty cell for which no tile of the
\* deck is legal, a confirm and a redraw each leave board, deck, inventory,
\* player position and selection state unchanged (only the message may
\* change), so the game stays Idle.
C19_RejectedCommandsNoOp ==
    ~selection_mode =>
        /\ \A d \in Dir :
              LET t == Neighbour(origin, d)
              IN  /\ t \notin Cells => MessageOnly(open_door_or_move(Self, d))
                  /\ (t \in Cells /\ ~Occupied(t) /\ ~SomeTileLegal(t, d)) =>
                        MessageOnly(open_door_or_move(Self, d))
          /\ MessageOnly(confirm_selection(Self))
          /\ MessageOnly(redraw_candidates_spend_die(Self))

\* A move has just been rejected for want of a legal tile, with a die in hand
\* that a redraw must not spend.
C19_Witness ==
    /\ ~selection_mode
    /\ pc = "loop"
    /\ turn_msg = "No legal rooms"
    /\ des >= 1
    /\ \E d \in Dir :
          LET t == Neighbour(origin, d)
          IN  t \in Cells /\ ~Occupied(t) /\ ~SomeTileLegal(t, d)

\* The on_enter effects that grant a permanent upgrade; each bears the name of
\* its flag.
PermanentTools == {"detecteur_de_metaux", "kit_de_crochetage", "pelle", "marteau"}
\* The messages on_enter can leave when the tile of cell rc grants tool to a
\* player who does not hold it.
FirstGrantMessages(rc, tool) ==
    {m.turn_msg :
        m \in on_enter([Self EXCEPT !.inventory.objets_permanents[tool] = FALSE],
                       rc[1], rc[2])}

\* C20: granting a permanent upgrade that is already held is a no-op: when
\* the player enters a tile whose on_enter effect grants a tool (metal
\* detector, lockpick kit, shovel, hammer) already held, the flags are
\* unchanged and the message differs from the message of the first grant.
C20_RegrantIsNoOp ==
    [][\A rc \in Cells :
          LET tool == IF Occupied(rc) THEN ROOM_CATALOG[grid[rc].piece].on_enter.type
                      ELSE None
          IN  (/\ ~selection_mode
               /\ Occupied(rc)
               /\ tool \in PermanentTools
               /\ inventory.objets_permanents[tool]
               /\ origin # rc
               /\ <<player_r', player_c'>> = rc) =>
                  /\ inventory'.objets_permanents = inventory.objets_permanents
                  /\ turn_msg' \notin FirstGrantMessages(rc, tool)]_vars

\* The tile of the occupied cell rc has the on_enter effect goal.
GoalTile(rc) == PieceOf(grid[rc].piece).on_enter.type = "goal"

\* C21: entering a cell whose tile has the on_enter effect goal sets running
\* to False, whatever the number of steps remaining: every move that takes
\* the player into such a cell ends with running False, and the player never
\* stands on such a tile with running True.
C21_GoalEndsGame ==
    /\ GoalTile(origin) => ~running
    /\ ~selection_mode =>
          \A d \in Dir :
              LET t == Neighbour(origin, d)
              IN  (t \in Cells /\ Occupied(t) /\ GoalTile(t)) =>
                     \A n \in open_door_or_move(Self, d) :
                         <<n.player_r, n.player_c>> = t =>
                             ~n.running /\ n.turn_msg = "You win"

\* The player has entered the goal tile with steps to spare.
C21_Witness ==
    /\ GoalTile(origin)
    /\ ~running
    /\ pas >= 1
    /\ turn_msg = "You win"

\* The interactable of the player's cell.
Here == grid[origin].interactable
\* What a chest can grant: 1 gem, 1 key and 15 coins, each or not; 5 coins
\* when none of the three.
ChestBundles ==
    {[gemmes |-> g, cles |-> k,
      pieces |-> IF g = 0 /\ k = 0 /\ p = 0 THEN 5 ELSE p] :
        g \in {0, 1}, k \in {0, 1}, p \in {0, 15}}

\* C22: Chest.interact with no key and no hammer is rejected and leaves
\* opened False and the inventory unchanged; with a key it consumes exactly
\* one key, sets opened True and grants a non-empty bundle (the resources of
\* the chest table whose trial succeeded, or 5 coins if none did); an interact
\* on an opened chest grants nothing.
C22_ChestInteract ==
    (~selection_mode /\ Here.kind = "chest") =>
        LET out == interact_current_cell(Self)
            c == inventory.objets_consommables
            granted(b) == [c EXCEPT !.cles = @ - 1 + b.cles,
                                    !.gemmes = @ + b.gemmes,
                                    !.pieces = @ + b.pieces]
        IN  /\ out # {}
            /\ (Here.opened \/ (cles = 0 /\ ~inventory.objets_permanents.marteau)) =>
                  \A n \in out : [n EXCEPT !.turn_msg = turn_msg] = Self
            /\ (~Here.opened /\ cles >= 1) =>
                  /\ \A n \in out :
                        /\ n.grid = [grid EXCEPT ![origin].interactable.opened = TRUE]
                        /\ \E b \in ChestBundles :
                              n.inventory.objets_consommables = granted(b)
                        /\ n.inventory.objets_permanents = inventory.objets_permanents
                        /\ [n EXCEPT !.turn_msg = turn_msg, !.grid = grid,
                                     !.inventory = inventory] = Self
                  /\ \A b \in ChestBundles :
                        \E n \in out : n.inventory.objets_consommables = granted(b)
                  /\ \A b \in ChestBundles : b.gemmes + b.cles + b.pieces > 0

\* A chest opened with the only key, none of its trials having succeeded.
C22_Witness ==
    /\ Here.kind = "chest"
    /\ Here.opened
    /\ turn_msg = "Used a key to open the chest"
    /\ cles = 0
    /\ gemmes = Inventory.objets_consommables.gemmes
    /\ inventory.objets_consommables.pieces = 5

\* C23: the opened flag of an interactable is terminal. For every Chest,
\* Casier and DigSite object, once opened is True no command sets it back to
\* False (a cell changes its interactable only for a new object), and its
\* loot is granted at most once: an interact changes the inventory only in
\* the step that opens the object.
C23_OpenedIsTerminal ==
    [][/\ \A rc \in Cells :
             LET a == grid[rc].interactable
                 b == grid'[rc].interactable
             IN  /\ b.instance >= a.instance
                 /\ b.instance = a.instance => b.kind = a.kind
                 /\ (a.opened /\ b.instance = a.instance) => b.opened
       /\ (CallInteract /\ inventory' # inventory) =>
             /\ isInteractable(Here)
             /\ ~Here.opened
             /\ grid'[origin].interactable = [Here EXCEPT !.opened = TRUE]]_vars

\* A second dig site made for a cell whose first one had been dug, dug too.
C23_Witness ==
    \E rc \in Cells :
        /\ grid[rc].interactable.kind = "dig_site"
        /\ grid[rc].interactable.instance = 2
        /\ grid[rc].interactable.opened

\* The tile named p of the deck may be placed on the cell t reached in
\* direction d.
LegalAt(p, t, d) ==
    /\ deck[p] > 0
    /\ ZoneAllows(p, t)
    /\ \E r \in 0..3 : RotationFits(p, r, t, d)
ZeroCost(p) == ROOM_CATALOG[p].cout = 0
\* The candidate lists a move in direction d toward the empty cell t, or a
\* redraw for it, can produce.
Drawn(t, d) == generate_candidates(Self, t[1], t[2], d)

\* C24: whenever a zero-cost tile of the deck is legal on the target cell,
\* the candidate list produced by a move or a redraw contains at least one
\* zero-cost tile: every list the generation can produce for an empty
\* neighbour, and the list held in Selecting.
C24_ZeroCostOffered ==
    /\ \A d \in Dir :
          LET t == Neighbour(origin, d)
          IN  (t \in Cells /\ ~Occupied(t) /\ \E p \in Names : LegalAt(p, t, d) /\ ZeroCost(p)) =>
                 \A c \in Drawn(t, d) : \E i \in 1..Len(c) : ZeroCost(c[i])
    /\ (Selecting /\ \E p \in Names : LegalAt(p, target_cell, toward) /\ ZeroCost(p)) =>
          \E i \in 1..Len(candidates) : ZeroCost(candidates[i])

\* A redraw has offered three tiles of which exactly one is free.
C24_Witness ==
    /\ Selecting
    /\ turn_msg = "Redrew candidates"
    /\ Len(candidates) = 3
    /\ Cardinality({i \in 1..3 : ZeroCost(candidates[i])}) = 1
    /\ \E p \in Names : LegalAt(p, target_cell, toward) /\ ZeroCost(p)

\* The player can pay for the tile named p.
Affordable(p) == ROOM_CATALOG[p].cout = 0 \/ ROOM_CATALOG[p].cout <= gemmes
\* The list c offered for the cell t reached in direction d is drawn from
\* the affordable legal tiles if there is one, else from the legal tiles.
FilteredByGems(c, t, d) ==
    /\ \A i \in 1..Len(c) : LegalAt(c[i], t, d)
    /\ (\E p \in Names : LegalAt(p, t, d) /\ Affordable(p)) =>
          \A i \in 1..Len(c) : Affordable(c[i])

\* C25: if at least one legal deck tile for the target is affordable (cost 0
\* or cost <= gems), every candidate offered by a move or a redraw is
\* affordable; only when no legal tile is affordable are candidates drawn
\* from the unfiltered legal pool, of which every tile can then be offered.
C25_AffordableOffered ==
    /\ \A d \in Dir :
          LET t == Neighbour(origin, d)
          IN  (t \in Cells /\ ~Occupied(t)) =>
                 /\ \A c \in Drawn(t, d) : FilteredByGems(c, t, d)
                 /\ (~\E p \in Names : LegalAt(p, t, d) /\ Affordable(p)) =>
                       \A p \in Names :
                           LegalAt(p, t, d) =>
                               \E c \in Drawn(t, d) : \E i \in 1..Len(c) : c[i] = p
    /\ Selecting => FilteredByGems(candidates, target_cell, toward)

\* Tiles the player can pay for are offered, one of them at a cost, while a
\* legal tile beyond the player's gems is held back.
C25_Witness ==
    /\ Selecting
    /\ candidates # <<>>
    /\ \A i \in 1..Len(candidates) : Affordable(candidates[i])
    /\ \E i \in 1..Len(candidates) : ROOM_CATALOG[candidates[i]].cout > 0
    /\ \E p \in Names : LegalAt(p, target_cell, toward) /\ ~Affordable(p)

\* C26: in every Selecting state the candidate list has 1 to 3 entries, the
\* cursor satisfies 0 <= selection_pos < len(candidates) whatever cursor moves
\* and redraws came before, and the target cell is an empty in-bounds cell
\* next to the player; in every Idle state the candidate list is empty and
\* there is no target cell.
C26_SelectionShape ==
    /\ selection_mode =>
          /\ Len(candidates) \in 1..3
          /\ selection_pos \in 0..(Len(candidates) - 1)
          /\ target_cell \in Cells
          /\ ~Occupied(target_cell)
          /\ \E d \in Dir : Neighbour(origin, d) = target_cell
    /\ ~selection_mode =>
          /\ candidates = <<>>
          /\ target_cell = NoCell

\* The cursor on the last of three candidates.
C26_Witness ==
    /\ selection_mode
    /\ Len(candidates) = 3
    /\ selection_pos = 2


\* C27: every candidate held while selecting is a tile of the deck (the deck
\* holds at least as many copies as the list does) with a rotation that fits
\* the target cell for the arrival direction; so no confirm ends with "No
\* valid orientation", and the tile a confirm commits was in the deck.
C27_CandidatesPlaceable ==
    Selecting =>
       /\ \A i \in 1..Len(candidates) :
             /\ deck[candidates[i]] >= Count(candidates, candidates[i])
             /\ \E r \in 0..3 : RotationFits(candidates[i], r, target_cell, toward)
       /\ \A n \in confirm_selection(Self) : n.turn_msg # "No valid orientation"

\* A redrawn list holds three tiles, one of them twice, and the cursor is on
\* a tile that only fits turned (rotation 0 does not fit).
C27_Witness ==
    /\ Selecting
    /\ turn_msg = "Redrew candidates"
    /\ Len(candidates) = 3
    /\ \E i \in 1..3 : Count(candidates, candidates[i]) = 2
    /\ ~RotationFits(chosen, 0, target_cell, toward)


\* The two sides of the door between rc and its neighbour in direction d.
DoorPair(rc, d) == <<grid[rc].doors[d], grid[Neighbour(rc, d)].doors[OPP[d]]>>
\* The same pair after the step.
DoorPairNext(rc, d) == <<grid'[rc].doors[d], grid'[Neighbour(rc, d)].doors[OPP[d]]>>

\* C28: the lock of a door is the same on its two sides in every reachable
\* state: for adjacent cells A and B, B in direction d from A, A.doors[d] =
\* B.doors[opposite(d)] (both absent or both the same level). A confirm that
\* commits a tile leaves the new door with one level on both sides (the level
\* drawn for the row, or 0 when the chained move opened it), and a lock that
\* changes is 0 on both sides afterwards.
C28_DoorsSymmetric ==
    /\ [](\A rc \in Cells : \A d \in Dir :
             Neighbour(rc, d) \in Cells => DoorPair(rc, d)[1] = DoorPair(rc, d)[2])
    /\ [][Commits =>
             \E l \in door_lock_for_target_row(target_cell[1]) \cup {0} :
                 DoorPairNext(origin, toward) = <<l, l>>]_vars
    /\ [][\A rc \in Cells : \A d \in Dir :
             (/\ Neighbour(rc, d) \in Cells
              /\ DoorPair(rc, d)[1] > 0
              /\ DoorPairNext(rc, d) # DoorPair(rc, d))
                => DoorPairNext(rc, d) = <<0, 0>>]_vars

\* A tile of the top row, behind a door that is always committed at level 2,
\* has been entered from below: the door is open on both sides.
C28_Witness ==
    \E c \in 0..(COLS - 1) :
        /\ origin = <<0, c>>
        /\ DoorPair(<<0, c>>, "down") = <<0, 0>>


\* C29: in every reachable state no placed tile, turned by its rotation, has a
\* port pointing at a cell outside the grid; the start tile is one of them.
C29_NoPortOffBoard ==
    \A rc \in Cells :
        Occupied(rc) =>
            \A d \in Dir :
                Facing(grid[rc].piece, grid[rc].rotation, d) => Neighbour(rc, d) \in Cells

\* A tile stands on a border cell turned, where unturned it would have had a
\* port pointing off the board.
C29_Witness ==
    \E rc \in Cells \ {Start} :
        /\ Occupied(rc)
        /\ grid[rc].rotation > 0
        /\ \E d \in Dir : Facing(grid[rc].piece, 0, d) /\ Neighbour(rc, d) \notin Cells


\* C30: a move toward an occupied neighbour that leaves the player where they
\* stand consumes nothing and opens nothing: the inventory (keys and steps
\* among it) and every lock level are as before, also when the move is
\* refused for want of steps in front of a locked door with a key in hand.
C30_RefusedMoveConsumesNothing ==
    ~selection_mode =>
        \A d \in Dir :
            LET t == Neighbour(origin, d)
            IN  (t \in Cells /\ Occupied(t)) =>
                   \A n \in open_door_or_move(Self, d) :
                       <<n.player_r, n.player_c>> = origin =>
                           /\ n.inventory = inventory
                           /\ \A rc \in Cells : n.grid[rc].doors = grid[rc].doors


\* The offers of the shop in the order of the pointer: price in coins, item,
\* quantity.
ShopOffers ==
    <<[cost |-> 10, item |-> "cles", qty |-> 1],
      [cost |-> 25, item |-> "des", qty |-> 1],
      [cost |-> 8, item |-> "pas", qty |-> 5]>>

\* A step that is one interaction on a shop tile.
ShopInteraction == call.op = "shop_menu" /\ call' # call

\* C31: each interaction on a shop tile either takes exactly the price of the
\* current offer in coins and gives exactly its item (1 key for 10, 1 die for
\* 25, 5 steps for 8), or, the coins being below the price, changes no
\* counter; both ways the pointer moves on by one modulo 3 and nothing else
\* but the message changes, so after n interactions the current offer is
\* n mod 3.
C31_ShopCycle ==
    /\ [](call.op = "shop_menu" => shop_cycle = call.n % 3)
    /\ [][ShopInteraction =>
             LET o == ShopOffers[shop_cycle + 1]
                 c == inventory.objets_consommables
                 coins == inventory.objets_consommables.pieces
             IN  /\ shop_cycle' = (shop_cycle + 1) % 3
                 /\ inventory'.objets_consommables =
                       IF coins >= o.cost
                       THEN [[c EXCEPT !.pieces = @ - o.cost] EXCEPT ![o.item] = @ + o.qty]
                       ELSE c
                 /\ inventory'.objets_permanents = inventory.objets_permanents
                 /\ UNCHANGED <<deck, grid, player_r, player_c, selection_mode,
                                candidates, selection_pos, target_cell, running,
                                in_shop>>]_vars

\* After six interactions, of which at least a key and a die were bought, the
\* sixth one refused for want of coins.
C31_Witness ==
    /\ call = ShopCalls(6)
    /\ cles >= 1
    /\ des >= 1
    /\ turn_msg = "Not enough coins for steps"


\* C32: an interactable that is not opened is never replaced or reset by an
\* entry into its tile (the only change it undergoes is its opening by an
\* interaction), and a new interactable appears only in the cell the player
\* enters, on a tile whose on_enter spawns that kind, where none or an opened
\* one was, and it is not opened.
C32_UnopenedKept ==
    [][\A rc \in Cells :
          LET it == grid[rc].interactable
              nit == grid'[rc].interactable
          IN  /\ (isInteractable(it) /\ ~it.opened /\ nit # it) =>
                    (rc = origin /\ nit = [it EXCEPT !.opened = TRUE])
              /\ nit.instance # it.instance =>
                    /\ ~(isInteractable(it) /\ ~it.opened)
                    /\ rc = <<player_r', player_c'>>
                    /\ rc # origin
                    /\ PieceOf(grid[rc].piece).on_enter.type = "spawn"
                    /\ nit = [kind |-> PieceOf(grid[rc].piece).on_enter.spawn,
                              opened |-> FALSE, instance |-> it.instance + 1]]_vars

\* The player is back on the Courtyard, whose first dig site is still there,
\* not opened: the entry left the message of the Entrance Hall.
C32_Witness ==
    /\ grid[origin].piece = "Courtyard"
    /\ Here = [kind |-> "dig_site", opened |-> FALSE, instance |-> 1]
    /\ turn_msg = "Back at the Entrance"


\* The effect types on_enter has a branch for, and those the on_draw step of
\* confirm_selection has a branch for (None: the tile has no such effect).
RecognisedOnEnter ==
    {None, "coins", "food", "goal", "start", "spawn", "detecteur_de_metaux",
     "kit_de_crochetage", "pelle", "marteau", "shop"}
RecognisedOnDraw ==
    {None, "gem_always", "inc_green_weight", "inc_find_objects", "inc_fire_weight"}

\* C33: a tile whose on_enter or on_draw type is not a recognised one is
\* rejected when the catalog is loaded: the game never holds such a tile, in
\* its deck or on its board.
C33_UnknownEffectsRejected ==
    \A n \in Names :
        (deck[n] > 0 \/ \E rc \in Cells : grid[rc].piece = n) =>
            /\ ROOM_CATALOG[n].on_enter.type \in RecognisedOnEnter
            /\ ROOM_CATALOG[n].on_draw.type \in RecognisedOnDraw


\* The cell rc and its occupied neighbour in direction d have no lock entry
\* for the side they share, and neither tile has a port toward the other.
Unconnected(rc, d) ==
    LET nb == Neighbour(rc, d)
    IN  /\ nb \in Cells
        /\ Occupied(rc)
        /\ Occupied(nb)
        /\ DoorPair(rc, d) = <<NoDoor, NoDoor>>
        /\ ~Facing(grid[rc].piece, grid[rc].rotation, d)
        /\ ~Facing(grid[nb].piece, grid[nb].rotation, OPP[d])

\* C34: a move into an occupied neighbour whose lock entry is absent goes
\* through whatever the ports: with at least 1 step left the player ends on
\* the neighbour, no door touched, and has_legal_moves counts the direction
\* as a legal move.
C34_AbsentLockIsOpen ==
    (~selection_mode /\ pas >= 1) =>
        \A d \in Dir :
            LET t == Neighbour(origin, d)
            IN  (t \in Cells /\ Occupied(t) /\ grid[t].doors[OPP[d]] = NoDoor) =>
                   /\ legal_move_toward(Self, d)
                   /\ \A n \in open_door_or_move(Self, d) :
                          /\ <<n.player_r, n.player_c>> = t
                          /\ \A rc \in Cells : n.grid[rc].doors = grid[rc].doors

\* The player stands on a tile whose only door is still locked on both sides:
\* they came in from an occupied neighbour with no lock entry and no ports
\* between the two tiles.
C34_Witness ==
    /\ origin # Start
    /\ \E d \in Dir : /\ Neighbour(origin, d) \in Cells
                      /\ DoorPair(origin, d)[1] > 0
                      /\ DoorPair(origin, d)[2] > 0
    /\ \A d \in Dir : grid[origin].doors[d] # 0
    /\ \E d \in Dir : Unconnected(origin, d)


\* Selecting was entered through the fallback of generate_candidates: no
\* legal tile of the deck for the target cell is affordable.
NoneAffordable ==
    /\ Selecting
    /\ ~\E p \in Names : LegalAt(p, target_cell, toward) /\ Affordable(p)


\* C35 as stated: once Selecting is entered through the fallback, nothing
\* leaves it and the game does not end.
C35_StuckSelecting ==
    [][NoneAffordable => (NoneAffordable' /\ running' /\ pc' = "loop")]_vars

\* C35, amended: once Selecting is entered through the fallback with steps
\* left, every confirm is rejected and no command or end of pass changes the
\* gems, the steps, the deck or the board, leaves Selecting or ends the game;
\* entered with no step left, the end of the pass ends the game.
C35_StuckWhileSteps ==
    /\ [](NoneAffordable =>
             /\ confirm_selection(Self) = {[Self EXCEPT !.turn_msg = "Not enough gems"]}
             /\ pas > 0 => lose_check(Self) = Self
             /\ pas <= 0 => ~lose_check(Self).running)
    /\ [][(NoneAffordable /\ pas > 0) =>
             /\ NoneAffordable'
             /\ running' /\ pc' = "loop"
             /\ pas' = pas /\ gemmes' = gemmes
             /\ UNCHANGED <<deck, grid, player_r, player_c, target_cell>>]_vars

\* A confirm has been rejected in a selection entered through the fallback,
\* steps left.
C35_Witness ==
    /\ NoneAffordable
    /\ pas > 0
    /\ turn_msg = "Not enough gems"


\* The tile of the occupied cell rc has, turned, a port on side d.
PortToward(rc, d) == Facing(grid[rc].piece, grid[rc].rotation, d)

\* The occupied cells linked to the cells of S by chains of adjacent occupied
\* cells whose tiles have ports facing each other.
RECURSIVE LinkedTo(_)
LinkedTo(S) ==
    LET more == {nb \in Cells \ S :
                    /\ Occupied(nb)
                    /\ \E rc \in S : \E d \in Dir :
                          /\ Neighbour(rc, d) = nb
                          /\ PortToward(rc, d)
                          /\ PortToward(nb, OPP[d])}
    IN  IF more = {} THEN S ELSE LinkedTo(S \cup more)

\* C36: a move toward an empty cell enters Selecting only if the player's
\* tile, turned, has a port toward that cell (without one the move changes
\* the message only); in Selecting the player's tile has a port toward the
\* target; and every occupied cell is linked to the start cell by a chain of
\* adjacent occupied cells with ports facing each other.
C36_PlacedThroughPorts ==
    /\ ~selection_mode =>
          \A d \in Dir :
              LET t == Neighbour(origin, d)
              IN  (t \in Cells /\ ~Occupied(t) /\ ~PortToward(origin, d)) =>
                     open_door_or_move(Self, d) =
                        {[Self EXCEPT !.turn_msg = "No legal rooms"]}
    /\ Selecting => PortToward(origin, toward)
    /\ \A rc \in Cells : Occupied(rc) => rc \in LinkedTo({Start})

\* Three tiles are placed, and a move from a side of the player's tile that
\* has no port toward the empty cell next to it has just been refused.
C36_Witness ==
    /\ Cardinality({rc \in Cells : Occupied(rc)}) = 4
    /\ turn_msg = "No legal rooms"
    /\ \E d \in Dir :
          LET t == Neighbour(origin, d)
          IN  t \in Cells /\ ~Occupied(t) /\ ~PortToward(origin, d)


\* C37: lock levels never increase. An entry that is 0 stays 0, an entry
\* above 0 keeps its level or becomes 0, and an absent entry gets a level
\* only in the step of the confirm that commits a tile to the target cell,
\* for the door between the player's cell and that cell; every other absent
\* entry stays absent.
C37_LocksNeverIncrease ==
    [][\A rc \in Cells : \A d \in Dir :
          LET a == grid[rc].doors[d]
              b == grid'[rc].doors[d]
          IN  /\ a = 0 => b = 0
              /\ a > 0 => b \in {a, 0}
              /\ (a = NoDoor /\ b # NoDoor) =>
                    /\ Commits
                    /\ <<rc, d>> \in {<<origin, toward>>, <<target_cell, OPP[toward]>>}
                    /\ b \in door_lock_for_target_row(target_cell[1]) \cup {0}]_vars

\* Two occupied neighbours have no entry for the side they share, and the
\* player, a key in hand, stands in front of a door left locked by an earlier
\* confirm.
C37_Witness ==
    /\ ~selection_mode
    /\ cles >= 1
    /\ pas >= 1
    /\ \E d \in Dir : Neighbour(origin, d) \in Cells /\ LockToward(d) > 0
    /\ \E rc \in Cells : \E d \in Dir :
          /\ Neighbour(rc, d) \in Cells
          /\ Occupied(rc) /\ Occupied(Neighbour(rc, d))
          /\ DoorPair(rc, d) = <<NoDoor, NoDoor>>


\* C38: a move that enters a Spawn tile whose interactable has been opened
\* leaves in the cell a new interactable of the same kind, not opened; and
\* a dig site that is not opened, the shovel in hand, yields loot whichever
\* one of the cell it is, so the cell gives loot again after each re-entry.
C38_OpenedRespawns ==
    ~selection_mode =>
        /\ \A d \in Dir :
              LET t == Neighbour(origin, d)
              IN  (/\ t \in Cells
                   /\ Occupied(t)
                   /\ PieceOf(grid[t].piece).on_enter.type = "spawn"
                   /\ grid[t].interactable.opened) =>
                     \A n \in open_door_or_move(Self, d) :
                         <<n.player_r, n.player_c>> = t =>
                            /\ n.grid[t].interactable =
                                  [kind |-> grid[t].interactable.kind,
                                   opened |-> FALSE,
                                   instance |-> grid[t].interactable.instance + 1]
                            /\ grid[t].interactable.kind =
                                  PieceOf(grid[t].piece).on_enter.spawn
        /\ (Here.kind = "dig_site" /\ ~Here.opened /\ inventory.objets_permanents.pelle) =>
              \A n \in interact_current_cell(Self) :
                  /\ n.grid[origin].interactable = [Here EXCEPT !.opened = TRUE]
                  /\ \E k \in Consommables :
                        n.inventory.objets_consommables[k] > inventory.objets_consommables[k]

\* The second dig site of the Courtyard has been dug.
C38_Witness ==
    /\ grid[origin].piece = "Courtyard"
    /\ Here = [kind |-> "dig_site", opened |-> TRUE, instance |-> 2]
    /\ turn_msg = "You dug the site"


\* The player, steps left, stands next to a tile in direction d whose on_enter
\* feeds more than the two steps of a round trip, with no lock either way.
FoodNextDoor(d) ==
    LET t == Neighbour(origin, d)
    IN  /\ pc = "loop" /\ running /\ ~selection_mode
        /\ pas >= 1
        /\ t \in Cells
        /\ Occupied(t)
        /\ PieceOf(grid[t].piece).on_enter.type = "food"
        /\ PieceOf(grid[t].piece).on_enter.amount > 2
        /\ LockToward(d) = 0
        /\ grid[origin].doors[d] \in {0, NoDoor}

\* C39: the food of on_enter is granted on every entry: wherever the player
\* stands next to a feeding tile, a move into it and a move back are possible
\* that spend one step each, grant the tile's amount, pass the lose check
\* twice and end in the very state they started from but for the message and
\* a step counter that is higher. The round trip can thus be repeated for
\* ever with steps above 0 and running True: the game need not terminate.
C39_FoodLoop ==
    \A d \in Dir :
        FoodNextDoor(d) =>
            LET t == Neighbour(origin, d)
                amt == PieceOf(grid[t].piece).on_enter.amount
            IN  \E n1 \in open_door_or_move(Self, d) :
                    /\ <<n1.player_r, n1.player_c>> = t
                    /\ n1.inventory.objets_consommables.pas = pas - 1 + amt
                    /\ lose_check(n1) = n1
                    /\ \E n2 \in open_door_or_move(n1, OPP[d]) :
                          /\ n2.inventory.objets_consommables.pas > pas
                          /\ lose_check(n2) = n2
                          /\ [n2 EXCEPT !.turn_msg = turn_msg,
                                        !.inventory.objets_consommables.pas = pas] = Self

\* Back on the start cell next to the Guest Bedroom after a walk of more than
\* ten steps on a board of three tiles, the step counter is at 70 again.
C39_Witness ==
    /\ origin = Start
    /\ turn_msg = "Back at the Entrance"
    /\ pas = 70
    /\ Cardinality({rc \in Cells : Occupied(rc)}) = 3
    /\ \E d \in Dir : FoodNextDoor(d)


====
